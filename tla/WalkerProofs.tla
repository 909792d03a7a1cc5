---------------------------- MODULE WalkerProofs ----------------------------
(***************************************************************************)
(* What holds of Walker and its Vector for all values, arrays, bounds and  *)
(* sequences of calls.                                                     *)
(***************************************************************************)
EXTENDS WalkerCursor, DataInduction, SequenceTheorems, TLAPS

Cell == Values \cup {Raw, Moved, Blank}

(* A vector of these fields, of which nothing was misused.                 *)
Vec(kind, cells, size, cap) ==
  [kind |-> kind, cells |-> cells, size |-> size, cap |-> cap, faults |-> {}]

(* The cells below size hold an element each, those above hold none.       *)
Lives(kind, cells, size) ==
  Constructs(kind) =>
    \A i \in DOMAIN cells : IF i <= size THEN cells[i] \in Values ELSE cells[i] \in {Raw, Blank}

(* The vector every method finds and leaves.                               *)
Sound(v) ==
  /\ v \in [kind : KindsUsed, cells : Seq(Cell), size : 0 .. MaxBlock, cap : 0 .. MaxBlock,
            faults : {{}}]
  /\ v.cap = Len(v.cells)
  /\ v.size <= v.cap
  /\ Lives(v.kind, v.cells, v.size)

(* w has the elements of v.                                                *)
Same(w, v) ==
  /\ w.kind = v.kind
  /\ w.size = v.size
  /\ \A i \in 1 .. v.size : w.cells[i] = v.cells[i]

(* w holds the first at elements of v, then p, then those of v after from. *)
Splices(w, v, at, p, from) ==
  /\ w.kind = v.kind
  /\ w.size = at + Len(p) + (v.size - from)
  /\ \A i \in 1 .. w.size :
       w.cells[i] = IF i <= at THEN v.cells[i]
                    ELSE IF i <= at + Len(p) THEN p[i - at]
                    ELSE v.cells[i - at - Len(p) + from]

(* How a method answers r, called on v: it fails and keeps the elements,   *)
(* it makes room for n elements in all, or it makes such an edit.          *)

Fails(r, v) ==
  \E w, status : /\ r = Result(w, status) /\ status # "NoError"
                 /\ Sound(w) /\ Same(w, v)

MakesRoom(r, v, n) ==
  \E w : r = Ok(w) /\ Sound(w) /\ Same(w, v) /\ n <= w.cap

Edits(r, v, at, p, from) ==
  \E w : r = Ok(w) /\ Sound(w) /\ Splices(w, v, at, p, from)

(* The elements of s may stand in a vector of that kind.                   *)
Fitting(kind, s) ==
  s \in Seq(Cell) /\ (Constructs(kind) => \A i \in 1 .. Len(s) : s[i] \in Values)

(* A function on 1 .. n is a sequence of length n.                         *)
LEMMA Blocks ==
  ASSUME NEW S, NEW n \in Nat, NEW f \in [1 .. n -> S]
  PROVE  f \in Seq(S) /\ Len(f) = n /\ DOMAIN f = 1 .. n
<1>1. f \in Seq(S) /\ DOMAIN f = 1 .. n
  BY SeqDef
<1>2. Len(f) \in Nat /\ 1 .. Len(f) = 1 .. n
  BY <1>1, LenProperties
<1> QED
  BY <1>1, <1>2

(* A vector of fields that fit together is sound.                          *)
LEMMA SoundVec ==
  ASSUME NEW kind \in KindsUsed, NEW cap \in 0 .. MaxBlock, NEW size \in 0 .. cap,
         NEW cells \in [1 .. cap -> Cell], Lives(kind, cells, size)
  PROVE  Sound(Vec(kind, cells, size, cap))
<1>1. cells \in Seq(Cell) /\ Len(cells) = cap
  BY Blocks
<1>2. size \in 0 .. MaxBlock
  BY BoundsAssumption
<1> QED
  BY <1>1, <1>2 DEF Sound, Vec

(* The fields of a sound vector, as the lemmas below use them.             *)
LEMMA SoundIsVec ==
  ASSUME NEW v, Sound(v)
  PROVE  /\ v = Vec(v.kind, v.cells, v.size, v.cap)
         /\ v.kind \in KindsUsed /\ v.kind \in Kinds
         /\ v.cap \in 0 .. MaxBlock /\ v.size \in 0 .. v.cap
         /\ v.cells \in [1 .. v.cap -> Cell] /\ DOMAIN v.cells = 1 .. v.cap
         /\ v.faults = {}
         /\ Lives(v.kind, v.cells, v.size)
<1>1. v.cells \in Seq(Cell) /\ v.cap = Len(v.cells) /\ v.kind \in KindsUsed
  BY DEF Sound
<1>2. v.cells \in [1 .. v.cap -> Cell] /\ DOMAIN v.cells = 1 .. v.cap
  BY <1>1, LenProperties
<1>3. v.cap \in 0 .. MaxBlock /\ v.size \in 0 .. v.cap
  BY BoundsAssumption DEF Sound
<1>4. v = Vec(v.kind, v.cells, v.size, v.cap) /\ v.faults = {}
  BY DEF Sound, Vec
<1>5. v.kind \in Kinds
  BY <1>1, BoundsAssumption
<1> QED
  BY <1>1, <1>2, <1>3, <1>4, <1>5 DEF Sound
(* A block of which nothing was misused.                                   *)
Mem(cells) == [cells |-> cells, faults |-> {}]

(* A vector with other cells, and with another size.                       *)
LEMMA VecUpdated ==
  ASSUME NEW kind, NEW c, NEW size, NEW cap, NEW d, NEW n
  PROVE  /\ With(Vec(kind, c, size, cap), Mem(d)) = Vec(kind, d, size, cap)
         /\ Sized(Vec(kind, c, size, cap), n) = Vec(kind, c, n, cap)
         /\ Memory(Vec(kind, c, size, cap)) = Mem(c)
<1> DEFINE v == Vec(kind, c, size, cap)
<1>1. [v EXCEPT !.cells = d] = Vec(kind, d, size, cap)
  BY DEF Vec
<1>2. With(v, Mem(d)) = [[v EXCEPT !.cells = d] EXCEPT !.faults = {}]
  BY DEF With, Mem
<1>3. [Vec(kind, d, size, cap) EXCEPT !.faults = {}] = Vec(kind, d, size, cap)
  BY DEF Vec
<1>4. With(v, Mem(d)) = Vec(kind, d, size, cap)
  BY Zenon, <1>1, <1>2, <1>3
<1> QED  BY <1>4 DEF Vec, Sized, Memory, Mem

(* The same of a sound vector.                                             *)
LEMMA SoundUpdated ==
  ASSUME NEW v, Sound(v), NEW d, NEW n
  PROVE  /\ With(v, Mem(d)) = Vec(v.kind, d, v.size, v.cap)
         /\ Sized(v, n) = Vec(v.kind, v.cells, n, v.cap)
         /\ Memory(v) = Mem(v.cells)
<1>1. v = Vec(v.kind, v.cells, v.size, v.cap)
  BY SoundIsVec
<1>2. PICK kind, c, size, cap : kind = v.kind /\ c = v.cells /\ size = v.size /\ cap = v.cap
  OBVIOUS
<1>3. v = Vec(kind, c, size, cap)
  BY <1>1, <1>2
<1> QED  BY <1>2, <1>3, VecUpdated

-----------------------------------------------------------------------------
(* The memory primitives, on a block of which nothing was misused.         *)

(* What a primitive makes of the block c of cap cells: the cells d.        *)

Cleared(d, kind, c, cap, at, n) ==
  /\ d \in [1 .. cap -> Cell]
  /\ \A i \in 1 .. cap :
       d[i] = IF Constructs(kind) /\ at < i /\ i <= at + n THEN Raw ELSE c[i]

Filled(d, c, cap, at, s) ==
  /\ d \in [1 .. cap -> Cell]
  /\ \A i \in 1 .. cap : d[i] = IF at < i /\ i <= at + Len(s) THEN s[i - at] ELSE c[i]

FilledInVain(d, c, cap, at, fail) ==
  /\ d \in [1 .. cap -> Cell]
  /\ \A i \in 1 .. cap :
       IF at < i /\ i <= at + fail THEN d[i] \in {Raw, Blank} ELSE d[i] = c[i]

Shifted(d, kind, c, cap, to, from, n) ==
  /\ d \in [1 .. cap -> Cell]
  /\ \A i \in 1 .. cap :
       d[i] = IF to < i /\ i <= to + n THEN c[i - to + from]
              ELSE IF from < i /\ i <= from + n THEN LeftBehind(kind, c[i])
              ELSE c[i]

Headed(d, c, cap, n) ==
  /\ d \in [1 .. cap -> Cell]
  /\ \A i \in 1 .. cap : d[i] = IF i <= n THEN c[i] ELSE Raw

(* Objects that are there are destroyed.                                   *)
LEMMA Destroyed ==
  ASSUME NEW kind, NEW cap \in Nat, NEW c \in [1 .. cap -> Cell], NEW at \in Nat, NEW n \in Nat,
         at + n <= cap, Constructs(kind) => \A i \in (at + 1) .. (at + n) : c[i] # Raw
  PROVE  \E d : DestroyN(kind, Mem(c), at, n) = Mem(d) /\ Cleared(d, kind, c, cap, at, n)
<1>1. CASE ~Constructs(kind)
  BY <1>1 DEF DestroyN, Cleared
<1>2. CASE Constructs(kind)
  <2> DEFINE d == [i \in 1 .. cap |-> IF i \in Cells(at, n) THEN Raw ELSE c[i]]
  <2>1. {i \in Cells(at, n) : i \notin 1 .. cap \/ c[i] = Raw} = {}
    BY <1>2 DEF Cells
  <2>2. DestroyN(kind, Mem(c), at, n) = Mem(d)
    BY <1>2, <2>1 DEF DestroyN, Mem, Blame
  <2>3. d \in [1 .. cap -> Cell]
    BY DEF Cell
  <2>4. \A i \in 1 .. cap :
          d[i] = IF Constructs(kind) /\ at < i /\ i <= at + n THEN Raw ELSE c[i]
    BY <1>2 DEF Cells
  <2> HIDE DEF d
  <2> QED  BY <2>2, <2>3, <2>4 DEF Cleared
<1> QED  BY <1>1, <1>2

(* Elements are built where none is alive.                                 *)
LEMMA CopiedToRaw ==
  ASSUME NEW kind, NEW cap \in Nat, NEW c \in [1 .. cap -> Cell], NEW at \in Nat,
         NEW s \in Seq(Cell), at + Len(s) <= cap,
         Constructs(kind) => \A i \in (at + 1) .. (at + Len(s)) : c[i] \notin Values
  PROVE  \E d : CopyToRawNoOverlap(kind, Mem(c), at, s, 0) = Mem(d) /\ Filled(d, c, cap, at, s)
<1> DEFINE n == Len(s)
           d == [i \in 1 .. cap |-> IF i \notin Cells(at, n) THEN c[i] ELSE s[i - at]]
<1>1. n \in Nat
  OBVIOUS
<1>2. Cells(at, n) \ 1 .. cap = {}
  BY <1>1 DEF Cells
<1>3. {i \in Cells(at, n) \cap 1 .. cap : Constructs(kind) /\ c[i] \in Values} = {}
  BY DEF Cells
<1>4. Built(c, at, s, 0) = d
  BY DEF Built
<1>5. CopyToRawNoOverlap(kind, Mem(c), at, s, 0) = Mem(d)
  <2>1. Mem(c).cells = c /\ Mem(c).faults = {} /\ DOMAIN c = 1 .. cap
    BY DEF Mem
  <2> HIDE DEF d
  <2> QED  BY <1>2, <1>3, <1>4, <2>1 DEF CopyToRawNoOverlap, Mem, Blame
<1>6. \A i \in 1 .. cap : d[i] = IF at < i /\ i <= at + n THEN s[i - at] ELSE c[i]
  BY <1>1 DEF Cells
<1>7. d \in [1 .. cap -> Cell]
  <2>1. \A i \in 1 .. n : s[i] \in Cell
    OBVIOUS
  <2>2. \A i \in 1 .. cap : i \in Cells(at, n) => i - at \in 1 .. n
    BY <1>1 DEF Cells
  <2> QED  BY <2>1, <2>2
<1> HIDE DEF d
<1> QED  BY <1>5, <1>6, <1>7 DEF Filled

(* An element that fails to be copied leaves nothing alive.                *)
LEMMA CopyToRawFails ==
  ASSUME NEW kind, NEW cap \in Nat, NEW c \in [1 .. cap -> Cell], NEW at \in Nat,
         NEW s \in Seq(Cell), NEW fail \in 1 .. Len(s), at + Len(s) <= cap,
         \A i \in (at + 1) .. (at + Len(s)) : c[i] \notin Values
  PROVE  \E d : /\ CopyToRawNoOverlap(kind, Mem(c), at, s, fail) = Mem(d)
               /\ FilledInVain(d, c, cap, at, fail)
<1> DEFINE n == Len(s)
           d == Built(c, at, s, fail)
<1>1. n \in Nat /\ fail \in Nat /\ fail # 0 /\ fail <= n /\ DOMAIN c = 1 .. cap
  OBVIOUS
<1>2. Cells(at, fail) \ 1 .. cap = {}
  BY <1>1 DEF Cells
<1>3. {i \in Cells(at, fail) \cap 1 .. cap : Constructs(kind) /\ c[i] \in Values} = {}
  BY <1>1 DEF Cells
<1>4. CopyToRawNoOverlap(kind, Mem(c), at, s, fail) = Mem(d)
  <2>1. Mem(c).cells = c /\ Mem(c).faults = {}
    BY DEF Mem
  <2> HIDE DEF d
  <2>2. Built(c, at, s, fail) = d
    BY DEF d
  <2> QED  BY <1>1, <1>2, <1>3, <2>1, <2>2 DEF CopyToRawNoOverlap, Mem, Blame
<1>5. \A i \in 1 .. cap :
        IF at < i /\ i <= at + fail THEN d[i] \in {Raw, Blank} ELSE d[i] = c[i]
  BY <1>1 DEF Built, Cells
<1>6. d \in [1 .. cap -> Cell]
  BY <1>1 DEF Built, Cells, Cell
<1> HIDE DEF d
<1> QED  BY <1>4, <1>5, <1>6 DEF FilledInVain

(* Elements are moved towards the front to places that do not overlap.     *)
LEMMA MovedToRaw ==
  ASSUME NEW kind, NEW cap \in Nat, NEW c \in [1 .. cap -> Cell],
         NEW to \in Nat, NEW from \in Nat, NEW n \in Nat, to + n <= from, from + n <= cap,
         Constructs(kind) => /\ \A i \in (from + 1) .. (from + n) : c[i] \in Values
                             /\ \A i \in (to + 1) .. (to + n) : c[i] \notin Values
  PROVE  \E d : /\ MoveToRawNoOverlap(kind, Mem(c), to, from, n, 0) = Mem(d)
               /\ Shifted(d, kind, c, cap, to, from, n)
<1> DEFINE d == MovedCells(kind, c, to, from, n)
<1>1. Cells(to, n) \cap Cells(from, n) = {}
  BY DEF Cells
<1>2. DeadSources(kind, c, from, n) = {}
  <2>1. {i \in Cells(from, n) : Constructs(kind) /\ (i \notin DOMAIN c \/ c[i] \notin Values)} = {}
    BY DEF Cells
  <2> QED  BY <2>1 DEF DeadSources, Blame
<1>3. {i \in Cells(to, n) :
         /\ Constructs(kind)
         /\ (IF i \in Cells(from, n) THEN LeftBehind(kind, c[i]) ELSE c[i]) \in Values} = {}
  BY <1>1 DEF Cells
<1>4. MoveToRawNoOverlap(kind, Mem(c), to, from, n, 0) = Mem(d)
  <2>1. Mem(c).cells = c /\ Mem(c).faults = {}
    BY DEF Mem
  <2> HIDE DEF d
  <2>2. MovedCells(kind, c, to, from, n) = d
    BY DEF d
  <2> QED  BY <1>1, <1>2, <1>3, <2>1, <2>2 DEF MoveToRawNoOverlap, FailedMove, Mem, Blame
<1>5. \A i \in 1 .. cap :
        d[i] = IF to < i /\ i <= to + n THEN c[i - to + from]
               ELSE IF from < i /\ i <= from + n THEN LeftBehind(kind, c[i])
               ELSE c[i]
  BY DEF MovedCells, Cells
<1>6. d \in [1 .. cap -> Cell]
  BY DEF MovedCells, Cells, LeftBehind, Cell
<1> HIDE DEF d
<1> QED  BY <1>4, <1>5, <1>6 DEF Shifted

(* Elements are moved towards the end, from the last one on.               *)
LEMMA MovedToDirty ==
  ASSUME NEW kind, NEW cap \in Nat, NEW c \in [1 .. cap -> Cell],
         NEW to \in Nat, NEW from \in Nat, NEW n \in Nat, from <= to, to + n <= cap,
         Constructs(kind) =>
           /\ \A i \in (from + 1) .. (from + n) : c[i] \in Values
           /\ \A i \in (from + n + 1) .. (to + n) : c[i] \notin Values
  PROVE  \E d : /\ MoveToDirty(kind, Mem(c), to, from + n, from, n, 0) = Mem(d)
               /\ Shifted(d, kind, c, cap, to, from, n)
<1> DEFINE d == MovedCells(kind, c, to, from, n)
<1>1. Cells(to, n) \ 1 .. cap = {}
  BY DEF Cells
<1>2. DeadSources(kind, c, from, n) = {}
  <2>1. {i \in Cells(from, n) : Constructs(kind) /\ (i \notin DOMAIN c \/ c[i] \notin Values)} = {}
    BY DEF Cells
  <2> QED  BY <2>1 DEF DeadSources, Blame
<1>3. {i \in Cells(to, n) : Constructs(kind) /\ i <= from + n /\ c[i] = Raw} = {}
  <2> SUFFICES ASSUME NEW i \in Cells(to, n), Constructs(kind), i <= from + n
               PROVE  c[i] # Raw
    OBVIOUS
  <2>1. i \in (from + 1) .. (from + n)
    BY DEF Cells
  <2> QED  BY <2>1, BoundsAssumption
<1>4. {i \in Cells(to, n) \cap 1 .. cap : Constructs(kind) /\ i > from + n /\ c[i] \in Values} = {}
  BY DEF Cells
<1>5. MoveToDirty(kind, Mem(c), to, from + n, from, n, 0) = Mem(d)
  <2>1. Mem(c).cells = c /\ Mem(c).faults = {} /\ DOMAIN c = 1 .. cap
    BY DEF Mem
  <2> HIDE DEF d
  <2>2. MovedCells(kind, c, to, from, n) = d
    BY DEF d
  <2> QED  BY <1>1, <1>2, <1>3, <1>4, <2>1, <2>2 DEF MoveToDirty, FailedMove, Mem, Blame
<1>6. \A i \in 1 .. cap :
        d[i] = IF to < i /\ i <= to + n THEN c[i - to + from]
               ELSE IF from < i /\ i <= from + n THEN LeftBehind(kind, c[i])
               ELSE c[i]
  BY DEF MovedCells, Cells
<1>7. d \in [1 .. cap -> Cell]
  BY DEF MovedCells, Cells, LeftBehind, Cell
<1> HIDE DEF d
<1> QED  BY <1>5, <1>6, <1>7 DEF Shifted

(* A block of which the elements are destroyed is given back.              *)
LEMMA BlockGivenBack ==
  ASSUME NEW kind, NEW cap \in Nat, NEW c \in [1 .. cap -> Cell], NEW size \in 0 .. cap,
         Lives(kind, c, size)
  PROVE  DestroyAndDeallocate(kind, Mem(c), size) = {}
<1>1. size \in Nat /\ size <= cap /\ 0 \in Nat /\ 0 + size <= cap
  OBVIOUS
<1>2. Constructs(kind) => \A i \in (0 + 1) .. (0 + size) : c[i] # Raw
  BY BoundsAssumption DEF Lives
<1>3. PICK d : DestroyN(kind, Mem(c), 0, size) = Mem(d) /\ Cleared(d, kind, c, cap, 0, size)
  BY <1>1, <1>2, Destroyed
<1>4. {i \in 1 .. cap : Constructs(kind) /\ d[i] \in Values} = {}
  BY <1>1, <1>3, BoundsAssumption DEF Lives, Cleared
<1>5. Deallocate(kind, Mem(d)) = {}
  <2>1. Mem(d).cells = d /\ Mem(d).faults = {} /\ DOMAIN d = 1 .. cap
    BY <1>3 DEF Mem, Cleared
  <2> QED  BY <1>4, <2>1 DEF Deallocate, Blame
<1> QED  BY <1>3, <1>5 DEF DestroyAndDeallocate

(* The old block is given back when nothing alive is left in it.           *)
LEMMA GivenBack ==
  ASSUME NEW v, Sound(v)
  PROVE  DestroyAndDeallocate(v.kind, Memory(v), v.size) = {}
<1>1. /\ v.cap \in Nat /\ v.size \in 0 .. v.cap
      /\ v.cells \in [1 .. v.cap -> Cell] /\ Lives(v.kind, v.cells, v.size)
  BY SoundIsVec, BoundsAssumption
<1>2. Memory(v) = Mem(v.cells)
  BY SoundIsVec DEF Memory, Mem
<1> QED  BY <1>1, <1>2, BlockGivenBack

-----------------------------------------------------------------------------
(* The blocks of a vector.                                                 *)

(* An allocator that answers gives what is asked for, within MaxBlock.     *)
LEMMA AllocatedEnough ==
  ASSUME NEW n \in Nat, NEW grow, Allocated(n, grow) # 0
  PROVE  Allocated(n, grow) \in Nat /\ n <= Allocated(n, grow) /\ Allocated(n, grow) <= MaxBlock
BY BoundsAssumption DEF Allocated

(* A new block begins with the elements of the old one that it takes over. *)
LEMMA NewBlockMade ==
  ASSUME NEW v, Sound(v), NEW n \in Nat, n <= v.size, NEW allocated \in Nat, n <= allocated
  PROVE  \E d : NewBlock(v, n, allocated) = Mem(d) /\ Headed(d, v.cells, allocated, n)
<1> DEFINE d == [i \in 1 .. allocated |-> IF i <= n THEN v.cells[i] ELSE Raw]
<1>1. /\ v.cap \in Nat /\ v.size \in 0 .. v.cap /\ v.faults = {}
      /\ v.cells \in [1 .. v.cap -> Cell] /\ Lives(v.kind, v.cells, v.size)
  BY SoundIsVec, BoundsAssumption
<1>2. {i \in Cells(0, n) : Constructs(v.kind) /\ (i \notin DOMAIN v.cells \/ v.cells[i] \notin Values)}
        = {}
  BY <1>1 DEF Cells, Lives
<1>3. NewBlock(v, n, allocated) = Mem(d)
  BY <1>1, <1>2 DEF NewBlock, DeadSources, Blame, Mem
<1>4. d \in [1 .. allocated -> Cell]
  BY <1>1 DEF Cell
<1>5. \A i \in 1 .. allocated : d[i] = IF i <= n THEN v.cells[i] ELSE Raw
  OBVIOUS
<1> HIDE DEF d
<1> QED  BY <1>3, <1>4, <1>5 DEF Headed

(* The new block takes the place of the old one.                           *)
LEMMA BlockReplaced ==
  ASSUME NEW v, Sound(v), NEW d, NEW n, NEW allocated
  PROVE  Replaced(v, Mem(d), allocated, n) = Vec(v.kind, d, n, allocated)
<1>1. DestroyAndDeallocate(v.kind, Memory(v), v.size) = {}
  BY GivenBack
<1>2. PICK kind, c, size, cap : v = Vec(kind, c, size, cap)
  BY SoundIsVec
<1>3. v.kind = kind
  BY <1>2 DEF Vec
<1>4. Replaced(v, Mem(d), allocated, n)
        = [[[[v EXCEPT !.cells = d] EXCEPT !.cap = allocated] EXCEPT !.size = n] EXCEPT !.faults = {}]
  BY <1>1 DEF Replaced, Mem
<1>5. [v EXCEPT !.cells = d] = Vec(kind, d, size, cap)
  BY <1>2 DEF Vec
<1>6. [Vec(kind, d, size, cap) EXCEPT !.cap = allocated] = Vec(kind, d, size, allocated)
  BY DEF Vec
<1>7. [Vec(kind, d, size, allocated) EXCEPT !.size = n] = Vec(kind, d, n, allocated)
  BY DEF Vec
<1>8. [Vec(kind, d, n, allocated) EXCEPT !.faults = {}] = Vec(kind, d, n, allocated)
  BY DEF Vec
<1>9. [[v EXCEPT !.cells = d] EXCEPT !.cap = allocated] = Vec(kind, d, size, allocated)
  BY Zenon, <1>5, <1>6
<1>10. [[[v EXCEPT !.cells = d] EXCEPT !.cap = allocated] EXCEPT !.size = n]
         = Vec(kind, d, n, allocated)
  BY Zenon, <1>7, <1>9
<1>11. Replaced(v, Mem(d), allocated, n) = Vec(kind, d, n, allocated)
  BY Zenon, <1>4, <1>8, <1>10
<1> QED  BY Zenon, <1>3, <1>11

(* reserveInternal gives the capacity or refuses, and keeps the elements.  *)
LEMMA Reserved ==
  ASSUME NEW v, Sound(v), NEW n \in Nat, NEW grow
  PROVE  \/ Fails(reserveInternal(v, n, grow, TRUE), v)
         \/ MakesRoom(reserveInternal(v, n, grow, TRUE), v, n)
<1> DEFINE allocated == Allocated(n, grow)
<1>1. v.cap \in Nat /\ v.size \in 0 .. v.cap /\ v.kind \in KindsUsed
  BY SoundIsVec, BoundsAssumption
<1>2. CASE n <= v.cap
  BY <1>2 DEF reserveInternal, Same, MakesRoom
<1>3. CASE n > v.cap /\ allocated = 0
  <2>1. reserveInternal(v, n, grow, TRUE) = Result(v, "ErrorNoMemory")
    BY <1>1, <1>3 DEF reserveInternal
  <2> QED  BY <2>1 DEF Fails, Same
<1>4. CASE n > v.cap /\ allocated # 0
  <2>1. allocated \in 0 .. MaxBlock /\ n <= allocated /\ allocated \in Nat
    BY <1>4, AllocatedEnough, BoundsAssumption
  <2>2. reserveInternal(v, n, grow, TRUE)
          = Ok(Replaced(v, NewBlock(v, v.size, allocated), allocated, v.size))
    BY <1>1, <1>4 DEF reserveInternal
  <2> HIDE DEF allocated
  <2>3. v.size \in Nat /\ v.size <= v.size /\ v.size <= allocated /\ v.size \in 0 .. allocated
    BY <1>1, <1>4, <2>1
  <2>4. PICK d : NewBlock(v, v.size, allocated) = Mem(d) /\ Headed(d, v.cells, allocated, v.size)
    BY <2>1, <2>3, NewBlockMade
  <2>5. d \in [1 .. allocated -> Cell] /\ DOMAIN d = 1 .. allocated
    BY <2>4 DEF Headed
  <2> DEFINE w == Vec(v.kind, d, v.size, allocated)
  <2>6. reserveInternal(v, n, grow, TRUE) = Ok(w)
    BY <2>2, <2>4, BlockReplaced
  <2>7. Lives(v.kind, d, v.size)
    <3>1. Lives(v.kind, v.cells, v.size) /\ DOMAIN v.cells = 1 .. v.cap
      BY SoundIsVec
    <3> QED  BY <1>1, <2>1, <2>4, <2>5, <3>1 DEF Lives, Headed
  <2>8. Sound(w)
    BY <1>1, <2>1, <2>3, <2>5, <2>7, SoundVec
  <2>9. Same(w, v) /\ n <= w.cap
    BY <1>1, <2>1, <2>3, <2>4 DEF Same, Vec, Headed
  <2> HIDE DEF w
  <2> QED  BY <2>6, <2>8, <2>9 DEF MakesRoom
<1>5. n <= v.cap \/ n > v.cap
  BY <1>1
<1> QED  BY <1>2, <1>3, <1>4, <1>5

(* The sum of two sizes is itself, or too large and less than either.      *)
LEMMA PlusIs ==
  ASSUME NEW x \in 0 .. SizeMax, NEW y \in 0 .. SizeMax
  PROVE  Plus(x, y) = IF x + y <= SizeMax THEN x + y ELSE x + y - SizeMax - 1
<1>1. SizeMax \in Nat
  BY BoundsAssumption
<1>2. CASE x + y <= SizeMax
  BY <1>1, <1>2 DEF Plus
<1>3. CASE x + y > SizeMax
  BY <1>1, <1>3 DEF Plus
<1> QED  BY <1>1, <1>2, <1>3

(* addSpaceIfNeed: a sum that wraps around is refused.                     *)
LEMMA SpaceAdded ==
  ASSUME NEW v, Sound(v), NEW n \in 0 .. SizeMax, NEW grow
  PROVE  \/ Fails(addSpaceIfNeed(v, n, grow, TRUE), v)
         \/ MakesRoom(addSpaceIfNeed(v, n, grow, TRUE), v, v.size + n)
<1>1. v.size \in 0 .. SizeMax /\ v.size \in Nat
  BY SoundIsVec, BoundsAssumption
<1>2. PICK sum : sum = Plus(v.size, n)
  OBVIOUS
<1>3. sum = IF v.size + n <= SizeMax THEN v.size + n ELSE v.size + n - SizeMax - 1
  BY <1>1, <1>2, PlusIs
<1>4. CASE sum < v.size
  <2>1. addSpaceIfNeed(v, n, grow, TRUE) = Result(v, "ErrorOverflow")
    BY <1>2, <1>4 DEF addSpaceIfNeed
  <2> QED  BY <2>1 DEF Fails, Same
<1>5. CASE ~(sum < v.size)
  <2>1. sum = v.size + n /\ sum \in Nat
    BY <1>1, <1>3, <1>5, BoundsAssumption
  <2>2. addSpaceIfNeed(v, n, grow, TRUE) = reserveInternal(v, sum, grow, TRUE)
    BY <1>2, <1>5 DEF addSpaceIfNeed
  <2>3. \/ Fails(reserveInternal(v, sum, grow, TRUE), v)
        \/ MakesRoom(reserveInternal(v, sum, grow, TRUE), v, sum)
    BY <2>1, Reserved
  <2> QED  BY <2>1, <2>2, <2>3
<1> QED  BY <1>4, <1>5

(* Elements are appended where there is room.                              *)
LEMMA AppendedAll ==
  ASSUME NEW v, Sound(v), NEW s, Fitting(v.kind, s), v.size + Len(s) <= v.cap
  PROVE  Edits(Appended(v, s, 0), v, v.size, s, v.size)
<1>1. /\ v.cap \in 0 .. MaxBlock /\ v.cap \in Nat /\ v.size \in 0 .. v.cap /\ v.size \in Nat
      /\ v.cells \in [1 .. v.cap -> Cell] /\ DOMAIN v.cells = 1 .. v.cap
      /\ v.kind \in KindsUsed /\ Lives(v.kind, v.cells, v.size)
  BY SoundIsVec, BoundsAssumption
<1>2. s \in Seq(Cell) /\ Len(s) \in Nat
  BY DEF Fitting
<1>3. Constructs(v.kind) => \A i \in (v.size + 1) .. (v.size + Len(s)) : v.cells[i] \notin Values
  BY <1>1, <1>2, BoundsAssumption DEF Lives
<1>4. PICK d : /\ CopyToRawNoOverlap(v.kind, Mem(v.cells), v.size, s, 0) = Mem(d)
               /\ Filled(d, v.cells, v.cap, v.size, s)
  BY <1>1, <1>2, <1>3, CopiedToRaw
<1>5. d \in [1 .. v.cap -> Cell] /\ DOMAIN d = 1 .. v.cap
  BY <1>4 DEF Filled
<1> DEFINE w == Vec(v.kind, d, v.size + Len(s), v.cap)
<1>6. Appended(v, s, 0) = Ok(w)
  <2>1. With(v, CopyToRawNoOverlap(v.kind, Memory(v), v.size, s, 0)) = Vec(v.kind, d, v.size, v.cap)
    BY <1>4, SoundUpdated
  <2>2. Appended(v, s, 0)
          = Ok(Sized(Vec(v.kind, d, v.size, v.cap), Vec(v.kind, d, v.size, v.cap).size + Len(s)))
    BY <2>1 DEF Appended
  <2>3. Vec(v.kind, d, v.size, v.cap).size = v.size
    BY DEF Vec
  <2> QED  BY <2>2, <2>3, VecUpdated
<1>7. Lives(v.kind, d, v.size + Len(s))
  BY <1>1, <1>2, <1>4, <1>5 DEF Lives, Filled, Fitting
<1>8. Sound(w)
  <2>1. v.size + Len(s) \in 0 .. v.cap
    BY <1>1, <1>2
  <2> QED  BY <1>1, <1>5, <1>7, <2>1, SoundVec
<1>9. Splices(w, v, v.size, s, v.size)
  <2>1. w.kind = v.kind /\ w.size = v.size + Len(s) /\ w.cells = d
    BY DEF Vec
  <2>2. \A i \in 1 .. v.size + Len(s) : d[i] = IF i <= v.size THEN v.cells[i] ELSE s[i - v.size]
    BY <1>1, <1>2, <1>4 DEF Filled
  <2> HIDE DEF w
  <2> QED  BY <1>1, <1>2, <2>1, <2>2 DEF Splices
<1> HIDE DEF w
<1> QED  BY <1>6, <1>8, <1>9 DEF Edits

(* An element that fails to be copied leaves the elements as they were.    *)
LEMMA AppendFails ==
  ASSUME NEW v, Sound(v), Constructs(v.kind), NEW s, Fitting(v.kind, s),
         v.size + Len(s) <= v.cap, NEW fail \in 1 .. Len(s)
  PROVE  Fails(Appended(v, s, fail), v)
<1>1. /\ v.cap \in 0 .. MaxBlock /\ v.cap \in Nat /\ v.size \in 0 .. v.cap /\ v.size \in Nat
      /\ v.cells \in [1 .. v.cap -> Cell] /\ DOMAIN v.cells = 1 .. v.cap
      /\ v.kind \in KindsUsed /\ Lives(v.kind, v.cells, v.size)
  BY SoundIsVec, BoundsAssumption
<1>2. s \in Seq(Cell) /\ Len(s) \in Nat /\ fail \in Nat /\ fail # 0 /\ fail <= Len(s)
  BY DEF Fitting
<1>3. \A i \in (v.size + 1) .. (v.size + Len(s)) : v.cells[i] \notin Values
  BY <1>1, <1>2, BoundsAssumption DEF Lives
<1>4. PICK d : /\ CopyToRawNoOverlap(v.kind, Mem(v.cells), v.size, s, fail) = Mem(d)
               /\ FilledInVain(d, v.cells, v.cap, v.size, fail)
  BY <1>1, <1>2, <1>3, CopyToRawFails
<1>5. d \in [1 .. v.cap -> Cell] /\ DOMAIN d = 1 .. v.cap
  BY <1>4 DEF FilledInVain
<1> DEFINE w == Vec(v.kind, d, v.size, v.cap)
<1>6. Appended(v, s, fail) = Result(w, "ErrorElement")
  <2>1. With(v, CopyToRawNoOverlap(v.kind, Memory(v), v.size, s, fail)) = w
    BY <1>4, SoundUpdated
  <2> HIDE DEF w
  <2> QED  BY <1>2, <2>1 DEF Appended
<1>7. Lives(v.kind, d, v.size)
  BY <1>1, <1>2, <1>4, <1>5 DEF Lives, FilledInVain
<1>8. Sound(w)
  BY <1>1, <1>5, <1>7, SoundVec
<1>9. Same(w, v)
  BY <1>1, <1>2, <1>4 DEF Same, Vec, FilledInVain
<1> HIDE DEF w
<1> QED  BY <1>6, <1>8, <1>9 DEF Fails

-----------------------------------------------------------------------------
(* The methods that write at a position.                                   *)

(* The elements of v from position from up to position to.                 *)
LEMMA Stretch ==
  ASSUME NEW v, Sound(v), NEW to \in 0 .. v.size, NEW from \in 0 .. to
  PROVE  /\ Fitting(v.kind, SubSeq(v.cells, from + 1, to))
         /\ Len(SubSeq(v.cells, from + 1, to)) = to - from
         /\ \A i \in 1 .. to - from : SubSeq(v.cells, from + 1, to)[i] = v.cells[from + i]
<1> DEFINE q == SubSeq(v.cells, from + 1, to)
<1>1. /\ v.cap \in Nat /\ v.size \in 0 .. v.cap /\ v.cells \in [1 .. v.cap -> Cell]
      /\ DOMAIN v.cells = 1 .. v.cap /\ Lives(v.kind, v.cells, v.size)
  BY SoundIsVec, BoundsAssumption
<1>2. from + 1 \in Int /\ to \in Int /\ \A i \in from + 1 .. to : v.cells[i] \in Cell
  BY <1>1
<1>3. /\ q \in Seq(Cell)
      /\ Len(q) = IF from + 1 <= to THEN to - (from + 1) + 1 ELSE 0
      /\ \A i \in 1 .. to - (from + 1) + 1 : q[i] = v.cells[from + 1 + i - 1]
  BY <1>2, SubSeqProperties
<1> HIDE DEF q
<1>4. Len(q) = to - from /\ \A i \in 1 .. to - from : q[i] = v.cells[from + i]
  BY <1>1, <1>3
<1>5. ASSUME Constructs(v.kind), NEW i \in 1 .. Len(q)
      PROVE  q[i] \in Values
  <2>1. from + i \in 1 .. v.cap /\ from + i <= v.size /\ i \in 1 .. to - from
    BY <1>1, <1>4
  <2>2. v.cells[from + i] \in Values
    BY <1>1, <1>5, <2>1 DEF Lives
  <2> QED  BY <1>4, <2>1, <2>2
<1>6. Fitting(v.kind, q)
  BY <1>3, <1>5 DEF Fitting
<1> QED  BY <1>4, <1>6 DEF q

(* The cells d after such an edit of v.                                    *)
Edited(d, v, cap, at, p, from, newSize) ==
  /\ d \in [1 .. cap -> Cell]
  /\ \A i \in 1 .. cap : i <= at => d[i] = v.cells[i]
  /\ \A i \in 1 .. cap : at < i /\ i <= at + Len(p) => d[i] = p[i - at]
  /\ \A i \in 1 .. cap :
       at + Len(p) < i /\ i <= newSize => d[i] = v.cells[i - at - Len(p) + from]
  /\ Constructs(v.kind) => \A i \in 1 .. cap : i > newSize => d[i] \in {Raw, Blank}

(* An edit of a sound vector makes a sound vector.                         *)
LEMMA EditMade ==
  ASSUME NEW v, Sound(v), NEW at \in 0 .. v.size, NEW from \in at .. v.size,
         NEW p, Fitting(v.kind, p), NEW newSize \in Nat,
         newSize = at + Len(p) + (v.size - from),
         NEW cap \in 0 .. MaxBlock, newSize <= cap,
         NEW d, Edited(d, v, cap, at, p, from, newSize)
  PROVE  /\ Sound(Vec(v.kind, d, newSize, cap))
         /\ Splices(Vec(v.kind, d, newSize, cap), v, at, p, from)
<1> DEFINE w == Vec(v.kind, d, newSize, cap)
<1>1. /\ v.cap \in Nat /\ v.size \in 0 .. v.cap /\ v.size \in Nat /\ v.kind \in KindsUsed
      /\ DOMAIN v.cells = 1 .. v.cap /\ Lives(v.kind, v.cells, v.size)
  BY SoundIsVec, BoundsAssumption
<1>2. /\ at \in Nat /\ from \in Nat /\ at <= from /\ from <= v.size /\ cap \in Nat
      /\ p \in Seq(Cell) /\ Len(p) \in Nat
  BY <1>1, BoundsAssumption DEF Fitting
<1>3. at <= newSize /\ at + Len(p) <= newSize
  BY <1>1, <1>2
<1>4. d \in [1 .. cap -> Cell] /\ DOMAIN d = 1 .. cap
  BY DEF Edited
<1>5. ASSUME NEW i \in 1 .. cap, at + Len(p) < i, i <= newSize
      PROVE  i - at - Len(p) + from \in 1 .. v.size
  <2>1. i \in Nat /\ i <= at + Len(p) + (v.size - from)
    BY <1>2, <1>5
  <2> QED  BY <1>1, <1>2, <1>5, <2>1
<1>6. Lives(v.kind, d, newSize)
  <2> SUFFICES ASSUME Constructs(v.kind), NEW i \in 1 .. cap
               PROVE  IF i <= newSize THEN d[i] \in Values ELSE d[i] \in {Raw, Blank}
    BY <1>4 DEF Lives
  <2>1. CASE i <= at
    <3>1. d[i] = v.cells[i] /\ i \in 1 .. v.cap /\ i <= v.size /\ i <= newSize
      BY <1>1, <1>2, <1>3, <2>1 DEF Edited
    <3> QED  BY <1>1, <3>1 DEF Lives
  <2>2. CASE at < i /\ i <= at + Len(p)
    <3>1. d[i] = p[i - at] /\ i <= newSize
      BY <1>2, <1>3, <2>2 DEF Edited
    <3>2. i - at \in 1 .. Len(p)
      BY <1>2, <2>2
    <3> QED  BY <3>1, <3>2 DEF Fitting
  <2>3. CASE at + Len(p) < i /\ i <= newSize
    <3>1. PICK j : j = i - at - Len(p) + from
      OBVIOUS
    <3>2. j \in 1 .. v.cap /\ j <= v.size
      BY <1>1, <1>5, <2>3, <3>1
    <3>3. d[i] = v.cells[j]
      BY <2>3, <3>1 DEF Edited
    <3>4. v.cells[j] \in Values
      BY <1>1, <3>2 DEF Lives
    <3> QED  BY <2>3, <3>3, <3>4
  <2>4. CASE i > newSize
    <3>1. d[i] \in {Raw, Blank}
      BY <2>4 DEF Edited
    <3> QED  BY <2>4, <3>1
  <2> QED  BY <1>2, <2>1, <2>2, <2>3, <2>4
<1>7. Sound(w)
  <2>1. newSize \in 0 .. cap
    BY <1>2
  <2> QED  BY <1>1, <1>4, <1>6, <2>1, SoundVec
<1>8. Splices(w, v, at, p, from)
  <2>1. w.kind = v.kind /\ w.size = newSize /\ w.cells = d
    BY DEF Vec
  <2> HIDE DEF w
  <2>2. ASSUME NEW i \in 1 .. newSize
        PROVE  d[i] = IF i <= at THEN v.cells[i]
                      ELSE IF i <= at + Len(p) THEN p[i - at]
                      ELSE v.cells[i - at - Len(p) + from]
    <3>1. i \in 1 .. cap /\ i <= newSize
      BY <1>2
    <3> QED  BY <1>2, <3>1 DEF Edited
  <2> QED  BY <2>1, <2>2 DEF Splices
<1> HIDE DEF w
<1> QED  BY <1>7, <1>8 DEF w

(* A new block takes the elements before offset, p and those after from.   *)
LEMMA NewBlockFilled ==
  ASSUME NEW v, Sound(v), NEW at \in 0 .. v.size, NEW from \in at .. v.size,
         NEW p, Fitting(v.kind, p), NEW newSize \in Nat,
         newSize = at + Len(p) + (v.size - from), NEW grow
  PROVE  LET r == IntoNewBlock(v, p, at, SubSeq(v.cells, from + 1, v.size), newSize, grow, 0)
         IN  Fails(r, v) \/ Edits(r, v, at, p, from)
<1> DEFINE allocated == Allocated(newSize, grow)
           tail == SubSeq(v.cells, from + 1, v.size)
           r == IntoNewBlock(v, p, at, tail, newSize, grow, 0)
<1>1. /\ v.cap \in Nat /\ v.size \in 0 .. v.cap /\ v.size \in Nat /\ v.kind \in KindsUsed
      /\ DOMAIN v.cells = 1 .. v.cap /\ Lives(v.kind, v.cells, v.size)
  BY SoundIsVec, BoundsAssumption
<1>2. CASE allocated = 0
  <2>1. r = Result(v, "ErrorNoMemory")
    BY <1>2 DEF IntoNewBlock
  <2> QED  BY <2>1 DEF Fails, Same
<1>3. CASE allocated # 0
  <2>1. allocated \in 0 .. MaxBlock /\ newSize <= allocated /\ allocated \in Nat
    BY <1>3, AllocatedEnough, BoundsAssumption
  <2>2. at \in Nat /\ at <= v.size /\ from \in 0 .. v.size /\ v.size \in 0 .. v.size
    BY <1>1
  <2>3. /\ Fitting(v.kind, tail) /\ Len(tail) = v.size - from
        /\ \A i \in 1 .. v.size - from : tail[i] = v.cells[from + i]
    BY <2>2, Stretch
  <2>6. IntoNewBlock(v, p, at, tail, newSize, grow, 0)
          = Ok(Replaced(v,
                 CopyToRawNoOverlap(v.kind,
                   CopyToRawNoOverlap(v.kind, NewBlock(v, at, allocated), at, p, 0),
                   at + Len(p), tail, 0),
                 allocated, newSize))
    BY <1>3 DEF IntoNewBlock
  <2> HIDE DEF allocated, tail
  <2>4. p \in Seq(Cell) /\ Len(p) \in Nat /\ tail \in Seq(Cell) /\ Len(tail) \in Nat
    BY <2>3 DEF Fitting
  <2>5. /\ at <= allocated /\ at + Len(p) \in Nat /\ at + Len(p) + Len(tail) = newSize
        /\ at + Len(p) <= allocated /\ at + Len(p) + Len(tail) <= allocated
        /\ at <= newSize /\ at + Len(p) <= newSize
    <3>1. at + Len(p) \in Nat /\ at + Len(p) + Len(tail) = newSize
      BY <1>1, <2>2, <2>3, <2>4
    <3>2. at <= at + Len(p) /\ at + Len(p) <= newSize
      BY <2>2, <2>4, <3>1
    <3> QED  BY <2>1, <2>2, <3>1, <3>2
  <2>7. PICK h : NewBlock(v, at, allocated) = Mem(h) /\ Headed(h, v.cells, allocated, at)
    BY <2>1, <2>2, <2>5, NewBlockMade
  <2>8. h \in [1 .. allocated -> Cell] /\ DOMAIN h = 1 .. allocated
    BY <2>7 DEF Headed
  <2>9. PICK b : /\ CopyToRawNoOverlap(v.kind, Mem(h), at, p, 0) = Mem(b)
                 /\ Filled(b, h, allocated, at, p)
    <3>1. Constructs(v.kind) => \A i \in (at + 1) .. (at + Len(p)) : h[i] \notin Values
      <4> SUFFICES ASSUME NEW i \in (at + 1) .. (at + Len(p))
                   PROVE  h[i] \notin Values
        OBVIOUS
      <4>0. i \in Nat /\ i > at /\ i <= at + Len(p)
        BY <2>2, <2>4
      <4>1. i \in 1 .. allocated /\ i > at
        BY <2>1, <2>2, <2>5, <4>0
      <4>2. h[i] = Raw
        BY <2>2, <2>7, <4>1 DEF Headed
      <4> QED  BY <4>2, BoundsAssumption
    <3> QED  BY <2>1, <2>2, <2>4, <2>5, <2>8, <3>1, CopiedToRaw
  <2>10. b \in [1 .. allocated -> Cell] /\ DOMAIN b = 1 .. allocated
    BY <2>9 DEF Filled
  <2>11. PICK d : /\ CopyToRawNoOverlap(v.kind, Mem(b), at + Len(p), tail, 0) = Mem(d)
                  /\ Filled(d, b, allocated, at + Len(p), tail)
    <3>1. Constructs(v.kind) =>
            \A i \in (at + Len(p) + 1) .. (at + Len(p) + Len(tail)) : b[i] \notin Values
      <4> SUFFICES ASSUME NEW i \in (at + Len(p) + 1) .. (at + Len(p) + Len(tail))
                   PROVE  b[i] \notin Values
        OBVIOUS
      <4>1. i \in 1 .. allocated /\ i > at + Len(p) /\ i > at
        BY <2>1, <2>2, <2>4, <2>5
      <4>2. b[i] = h[i]
        BY <2>2, <2>4, <2>9, <4>1 DEF Filled
      <4>3. h[i] = Raw
        BY <2>2, <2>7, <4>1 DEF Headed
      <4> QED  BY <4>2, <4>3, BoundsAssumption
    <3> QED  BY <2>1, <2>4, <2>5, <2>10, <3>1, CopiedToRaw
  <2>12. d \in [1 .. allocated -> Cell] /\ DOMAIN d = 1 .. allocated
    BY <2>11 DEF Filled
  <2> DEFINE w == Vec(v.kind, d, newSize, allocated)
  <2>13. r = Ok(w)
    BY <2>6, <2>7, <2>9, <2>11, BlockReplaced
  <2>14. Edited(d, v, allocated, at, p, from, newSize)
    <3>1. ASSUME NEW i \in 1 .. allocated
          PROVE  /\ d[i] = IF at + Len(p) < i /\ i <= at + Len(p) + Len(tail)
                           THEN tail[i - (at + Len(p))] ELSE b[i]
                 /\ b[i] = IF at < i /\ i <= at + Len(p) THEN p[i - at] ELSE h[i]
                 /\ h[i] = IF i <= at THEN v.cells[i] ELSE Raw
      BY <2>7, <2>9, <2>11 DEF Filled, Headed
    <3>2. ASSUME NEW i \in 1 .. allocated, i <= at
          PROVE  d[i] = v.cells[i]
      <4>1. ~(at + Len(p) < i) /\ ~(at < i)
        BY <2>2, <2>4, <3>2
      <4> QED  BY <3>1, <3>2, <4>1
    <3>3. ASSUME NEW i \in 1 .. allocated, at < i, i <= at + Len(p)
          PROVE  d[i] = p[i - at]
      BY <2>1, <2>2, <2>4, <3>1, <3>3
    <3>4. ASSUME NEW i \in 1 .. allocated, at + Len(p) < i, i <= newSize
          PROVE  d[i] = v.cells[i - at - Len(p) + from]
      <4>1. i - (at + Len(p)) \in 1 .. v.size - from
        BY <1>1, <2>2, <2>3, <2>4, <2>5, <3>4
      <4>2. tail[i - (at + Len(p))] = v.cells[from + (i - (at + Len(p)))]
        BY <2>3, <4>1
      <4>3. from + (i - (at + Len(p))) = i - at - Len(p) + from
        BY <2>2, <2>4
      <4> QED  BY <2>2, <2>4, <2>5, <3>1, <3>4, <4>2, <4>3
    <3>5. ASSUME NEW i \in 1 .. allocated, i > newSize
          PROVE  d[i] \in {Raw, Blank}
      <4>1. ~(i <= at + Len(p) + Len(tail)) /\ ~(i <= at + Len(p)) /\ ~(i <= at)
        BY <2>2, <2>4, <2>5, <3>5
      <4> QED  BY <3>1, <4>1
    <3> QED  BY <2>12, <3>2, <3>3, <3>4, <3>5 DEF Edited
  <2>15. Sound(w) /\ Splices(w, v, at, p, from)
    BY <2>1, <2>14, EditMade
  <2> HIDE DEF w, r
  <2> QED  BY <2>13, <2>15 DEF Edits, tail, r
<1> QED  BY <1>2, <1>3

(* The elements at a position are destroyed and p built in their place.    *)
LEMMA InPlaceReplaced ==
  ASSUME NEW v, Sound(v), NEW at \in 0 .. v.size, NEW p, Fitting(v.kind, p),
         NEW newSize \in Nat, newSize <= v.cap,
         newSize = IF at + Len(p) > v.size THEN at + Len(p) ELSE v.size
  PROVE  Edits(ReplacedInPlace(v, p, at, newSize, 0), v, at, p, Lesser(at + Len(p), v.size))
<1> DEFINE n == Lesser(Len(p), v.size - at)
           from == Lesser(at + Len(p), v.size)
           c == v.cells
<1>1. /\ v.cap \in 0 .. MaxBlock /\ v.cap \in Nat /\ v.size \in Nat /\ v.size <= v.cap
      /\ c \in [1 .. v.cap -> Cell] /\ DOMAIN c = 1 .. v.cap
      /\ Lives(v.kind, c, v.size)
  BY SoundIsVec, BoundsAssumption
<1>2. p \in Seq(Cell) /\ Len(p) \in Nat /\ at \in Nat /\ at <= v.size
  BY <1>1 DEF Fitting
<1>3. /\ n \in Nat /\ n <= Len(p) /\ at + n <= v.size /\ at + n <= v.cap
      /\ at + n = v.size \/ n = Len(p)
  <2>1. CASE Len(p) < v.size - at
    <3>1. n = Len(p)
      BY <2>1 DEF Lesser
    <3> QED  BY <1>1, <1>2, <2>1, <3>1
  <2>2. CASE ~(Len(p) < v.size - at)
    <3>1. n = v.size - at
      BY <2>2 DEF Lesser
    <3> QED  BY <1>1, <1>2, <2>2, <3>1
  <2> QED  BY <2>1, <2>2
<1>13. /\ at + Len(p) <= v.cap /\ at + Len(p) <= newSize /\ v.size <= newSize
       /\ from \in at .. v.size /\ newSize = at + Len(p) + (v.size - from)
  <2>1. CASE at + Len(p) < v.size
    <3>1. from = at + Len(p) /\ newSize = v.size
      BY <1>1, <1>2, <2>1 DEF Lesser
    <3> QED  BY <1>1, <1>2, <2>1, <3>1
  <2>2. CASE ~(at + Len(p) < v.size)
    <3>1. from = v.size /\ newSize = at + Len(p)
      BY <1>1, <1>2, <2>2 DEF Lesser
    <3> QED  BY <1>1, <1>2, <2>2, <3>1
  <2> QED  BY <2>1, <2>2
<1>4. Memory(v) = Mem(c)
  BY SoundUpdated
<1>5. ReplacedInPlace(v, p, at, newSize, 0)
        = Ok(Sized(With(v, CopyToRawNoOverlap(v.kind, DestroyN(v.kind, Mem(c), at, n), at, p, 0)),
                   newSize))
  BY <1>4 DEF ReplacedInPlace
<1>6. at + Len(p) = from \/ (newSize = at + Len(p) /\ from = v.size)
  BY <1>1, <1>2, <1>13 DEF Lesser
<1> HIDE DEF n, from, c
<1>7. PICK x : DestroyN(v.kind, Mem(c), at, n) = Mem(x) /\ Cleared(x, v.kind, c, v.cap, at, n)
  <2>1. ASSUME Constructs(v.kind), NEW i \in (at + 1) .. (at + n)
        PROVE  c[i] # Raw
    <3>1. i \in 1 .. v.cap /\ i <= v.size
      <4>1. i \in Nat /\ at < i /\ i <= at + n
        BY <1>2, <1>3
      <4> QED  BY <1>1, <1>2, <1>3, <4>1
    <3>2. c[i] \in Values
      BY <1>1, <2>1, <3>1 DEF Lives
    <3> QED  BY <3>2, BoundsAssumption
  <2> QED  BY <1>1, <1>2, <1>3, <1>13, <2>1, Destroyed
<1>8. x \in [1 .. v.cap -> Cell]
  BY <1>7 DEF Cleared
<1>9. PICK d : CopyToRawNoOverlap(v.kind, Mem(x), at, p, 0) = Mem(d) /\ Filled(d, x, v.cap, at, p)
  <2>1. ASSUME Constructs(v.kind), NEW i \in (at + 1) .. (at + Len(p))
        PROVE  x[i] \notin Values
    <3>1. i \in 1 .. v.cap /\ at < i
      <4>1. i \in Nat /\ at < i /\ i <= at + Len(p)
        BY <1>2
      <4> QED  BY <1>1, <1>2, <1>13, <4>1
    <3>2. CASE i <= at + n
      <4>1. x[i] = Raw
        BY <1>7, <2>1, <3>1, <3>2 DEF Cleared
      <4> QED  BY <4>1, BoundsAssumption
    <3>3. CASE ~(i <= at + n)
      <4>1. ~(i <= v.size)
        BY <1>1, <1>2, <1>3, <1>13, <3>3
      <4>2. x[i] = c[i]
        BY <1>7, <3>1, <3>3 DEF Cleared
      <4>3. c[i] \in {Raw, Blank}
        BY <1>1, <2>1, <3>1, <4>1 DEF Lives
      <4> QED  BY <4>2, <4>3, BoundsAssumption
    <3> QED  BY <3>2, <3>3
  <2> QED  BY <1>1, <1>2, <1>3, <1>13, <1>8, <2>1, CopiedToRaw
<1> DEFINE w == Vec(v.kind, d, newSize, v.cap)
<1>10. ReplacedInPlace(v, p, at, newSize, 0) = Ok(w)
  <2>1. With(v, Mem(d)) = Vec(v.kind, d, v.size, v.cap)
    BY SoundUpdated
  <2>2. Sized(Vec(v.kind, d, v.size, v.cap), newSize) = w
    BY VecUpdated
  <2> HIDE DEF w
  <2> QED  BY <1>5, <1>7, <1>9, <2>1, <2>2
<1>11. Edited(d, v, v.cap, at, p, from, newSize)
  <2>1. ASSUME NEW i \in 1 .. v.cap
        PROVE  /\ d[i] = IF at < i /\ i <= at + Len(p) THEN p[i - at] ELSE x[i]
               /\ x[i] = IF Constructs(v.kind) /\ at < i /\ i <= at + n THEN Raw ELSE c[i]
    BY <1>7, <1>9 DEF Filled, Cleared
  <2>2. ASSUME NEW i \in 1 .. v.cap, i <= at
        PROVE  d[i] = v.cells[i]
    <3>1. ~(at < i)
      BY <1>2, <2>2
    <3> QED  BY <2>1, <3>1 DEF c
  <2>3. ASSUME NEW i \in 1 .. v.cap, at < i, i <= at + Len(p)
        PROVE  d[i] = p[i - at]
    BY <2>1, <2>3
  <2>4. ASSUME NEW i \in 1 .. v.cap, at + Len(p) < i
        PROVE  d[i] = c[i]
    <3>1. ~(i <= at + Len(p)) /\ ~(i <= at + n)
      BY <1>2, <1>3, <1>13, <2>4
    <3> QED  BY <2>1, <3>1
  <2>5. ASSUME NEW i \in 1 .. v.cap, at + Len(p) < i, i <= newSize
        PROVE  d[i] = v.cells[i - at - Len(p) + from]
    <3>1. at + Len(p) = from
      BY <1>2, <1>6, <2>5
    <3>2. i - at - Len(p) + from = i
      BY <1>2, <3>1
    <3> QED  BY <2>4, <2>5, <3>2 DEF c
  <2>6. ASSUME Constructs(v.kind), NEW i \in 1 .. v.cap, i > newSize
        PROVE  d[i] \in {Raw, Blank}
    <3>1. at + Len(p) < i /\ ~(i <= v.size)
      <4>1. i \in Nat /\ newSize < i
        BY <2>6
      <4>2. v.size <= newSize /\ at + Len(p) <= newSize
        BY <1>13
      <4>3. at + Len(p) \in Nat /\ v.size \in Nat
        BY <1>1, <1>2
      <4>4. \A j \in Nat : j <= newSize => j < i
        BY <4>1
      <4>5. v.size < i
        BY <4>2, <4>3, <4>4
      <4>6. ~(i <= v.size)
        BY <4>1, <4>3, <4>5
      <4> QED  BY <4>2, <4>3, <4>4, <4>6
    <3>2. c[i] \in {Raw, Blank}
      BY <1>1, <2>6, <3>1 DEF Lives
    <3> QED  BY <2>4, <3>1, <3>2
  <2>7. d \in [1 .. v.cap -> Cell]
    BY <1>9 DEF Filled
  <2> QED  BY <2>2, <2>3, <2>5, <2>6, <2>7 DEF Edited
<1>12. Sound(w) /\ Splices(w, v, at, p, from)
  BY <1>1, <1>3, <1>13, <1>11, EditMade
<1> HIDE DEF w
<1> QED  BY <1>10, <1>12 DEF Edits, from

(* The elements from a position on make way, and p is built where they     *)
(* stood: not if a move leaves them there.                                 *)
LEMMA InPlaceInserted ==
  ASSUME NEW v, Sound(v), NEW at \in 0 .. v.size, NEW p, Fitting(v.kind, p),
         v.size + Len(p) <= v.cap, v.kind = "copied" => at = v.size
  PROVE  Edits(InsertedInPlace(v, p, at, 0, 0), v, at, p, at)
<1> DEFINE right == v.size - at
           to == at + Len(p)
           c == v.cells
           newSize == v.size + Len(p)
<1>1. /\ v.cap \in 0 .. MaxBlock /\ v.cap \in Nat /\ v.size \in Nat /\ v.size <= v.cap
      /\ c \in [1 .. v.cap -> Cell] /\ DOMAIN c = 1 .. v.cap
      /\ Lives(v.kind, c, v.size) /\ v.kind \in Kinds
  BY SoundIsVec, BoundsAssumption
<1>2. p \in Seq(Cell) /\ Len(p) \in Nat /\ at \in Nat /\ at <= v.size
  BY <1>1 DEF Fitting
<1>3. /\ right \in Nat /\ to \in Nat /\ at <= to /\ to + right <= v.cap /\ at + right = v.size
      /\ to + right = newSize /\ newSize \in Nat /\ newSize <= v.cap /\ to <= v.cap
      /\ at \in at .. v.size /\ newSize = at + Len(p) + (v.size - at)
  BY <1>1, <1>2
<1>4. Memory(v) = Mem(c)
  BY SoundUpdated
<1>5. InsertedInPlace(v, p, at, 0, 0)
        = LET w == With(v, CopyToRawNoOverlap(v.kind,
                             MoveToDirty(v.kind, Mem(c), to, v.size, at, right, 0), at, p, 0))
          IN  Ok(Sized(w, w.size + Len(p)))
  BY <1>4 DEF InsertedInPlace
<1>6. to = at + Len(p) /\ newSize = v.size + Len(p)
  OBVIOUS
<1> HIDE DEF right, to, c, newSize
<1>7. PICK x : /\ MoveToDirty(v.kind, Mem(c), to, v.size, at, right, 0) = Mem(x)
               /\ Shifted(x, v.kind, c, v.cap, to, at, right)
  <2>1. ASSUME Constructs(v.kind), NEW i \in (at + 1) .. (at + right)
        PROVE  c[i] \in Values
    <3>1. i \in 1 .. v.cap /\ i <= v.size
      BY <1>1, <1>2, <1>3
    <3> QED  BY <1>1, <2>1, <3>1 DEF Lives
  <2>2. ASSUME Constructs(v.kind), NEW i \in (at + right + 1) .. (to + right)
        PROVE  c[i] \notin Values
    <3>1. i \in 1 .. v.cap /\ ~(i <= v.size)
      BY <1>1, <1>2, <1>3
    <3>2. c[i] \in {Raw, Blank}
      BY <1>1, <2>2, <3>1 DEF Lives
    <3> QED  BY <3>2, BoundsAssumption
  <2>3. \E x : /\ MoveToDirty(v.kind, Mem(c), to, at + right, at, right, 0) = Mem(x)
               /\ Shifted(x, v.kind, c, v.cap, to, at, right)
    BY <1>1, <1>2, <1>3, <2>1, <2>2, MovedToDirty
  <2> QED  BY <1>3, <2>3
<1>8. x \in [1 .. v.cap -> Cell]
  BY <1>7 DEF Shifted
<1>9. PICK d : CopyToRawNoOverlap(v.kind, Mem(x), at, p, 0) = Mem(d) /\ Filled(d, x, v.cap, at, p)
  <2>1. ASSUME Constructs(v.kind), NEW i \in (at + 1) .. (at + Len(p))
        PROVE  x[i] \notin Values
    <3>1. i \in 1 .. v.cap /\ at < i /\ ~(to < i)
      BY <1>1, <1>2, <1>3, <1>6
    <3>2. x[i] = IF at < i /\ i <= at + right THEN LeftBehind(v.kind, c[i]) ELSE c[i]
      BY <1>7, <3>1 DEF Shifted
    <3>3. CASE i <= v.size
      <4>1. v.kind = "movable"
        BY <1>1, <1>2, <2>1, <3>1, <3>3 DEF Kinds, Constructs
      <4>2. x[i] = Moved
        BY <1>3, <3>1, <3>2, <3>3, <4>1 DEF LeftBehind
      <4> QED  BY <4>2, BoundsAssumption
    <3>4. CASE ~(i <= v.size)
      <4>1. x[i] = c[i]
        BY <1>3, <3>2, <3>4
      <4>2. c[i] \in {Raw, Blank}
        BY <1>1, <2>1, <3>1, <3>4 DEF Lives
      <4> QED  BY <4>1, <4>2, BoundsAssumption
    <3> QED  BY <3>3, <3>4
  <2> QED  BY <1>1, <1>2, <1>3, <1>6, <1>8, <2>1, CopiedToRaw
<1> DEFINE w == Vec(v.kind, d, newSize, v.cap)
<1>10. InsertedInPlace(v, p, at, 0, 0) = Ok(w)
  <2>1. With(v, Mem(d)) = Vec(v.kind, d, v.size, v.cap)
    BY SoundUpdated
  <2>2. Vec(v.kind, d, v.size, v.cap).size = v.size
    BY DEF Vec
  <2>3. Sized(Vec(v.kind, d, v.size, v.cap), newSize) = w
    BY VecUpdated
  <2> HIDE DEF w
  <2> QED  BY <1>5, <1>6, <1>7, <1>9, <2>1, <2>2, <2>3
<1>11. Edited(d, v, v.cap, at, p, at, newSize)
  <2>1. ASSUME NEW i \in 1 .. v.cap
        PROVE  /\ d[i] = IF at < i /\ i <= at + Len(p) THEN p[i - at] ELSE x[i]
               /\ x[i] = IF to < i /\ i <= to + right THEN c[i - to + at]
                         ELSE IF at < i /\ i <= at + right THEN LeftBehind(v.kind, c[i])
                         ELSE c[i]
    BY <1>7, <1>9 DEF Filled, Shifted
  <2>2. ASSUME NEW i \in 1 .. v.cap, i <= at
        PROVE  d[i] = v.cells[i]
    <3>1. ~(at < i) /\ ~(to < i)
      BY <1>2, <1>3, <2>2
    <3> QED  BY <2>1, <3>1 DEF c
  <2>3. ASSUME NEW i \in 1 .. v.cap, at < i, i <= at + Len(p)
        PROVE  d[i] = p[i - at]
    BY <2>1, <2>3
  <2>4. ASSUME NEW i \in 1 .. v.cap, at + Len(p) < i, i <= newSize
        PROVE  d[i] = v.cells[i - at - Len(p) + at]
    <3>1. to < i /\ i <= to + right /\ ~(i <= at + Len(p))
      BY <1>2, <1>3, <1>6, <2>4
    <3>2. i - at - Len(p) + at = i - to + at
      BY <1>2, <1>6
    <3> QED  BY <2>1, <3>1, <3>2 DEF c
  <2>5. ASSUME Constructs(v.kind), NEW i \in 1 .. v.cap, i > newSize
        PROVE  d[i] \in {Raw, Blank}
    <3>1. ~(i <= at + Len(p)) /\ ~(i <= to + right) /\ ~(i <= at + right) /\ ~(i <= v.size)
      BY <1>1, <1>2, <1>3, <1>6, <2>5
    <3>2. c[i] \in {Raw, Blank}
      BY <1>1, <2>5, <3>1 DEF Lives
    <3> QED  BY <2>1, <3>1, <3>2
  <2>6. d \in [1 .. v.cap -> Cell]
    BY <1>9 DEF Filled
  <2> QED  BY <2>2, <2>3, <2>4, <2>5, <2>6 DEF Edited
<1>12. Sound(w) /\ Splices(w, v, at, p, at)
  BY <1>1, <1>3, <1>11, EditMade
<1> HIDE DEF w
<1> QED  BY <1>10, <1>12 DEF Edits

(* The elements at a position are destroyed, and no more than as many on   *)
(* their right moved down.                                                 *)
LEMMA CellsErased ==
  ASSUME NEW v, Sound(v), NEW at \in Nat, NEW n \in Nat, at + n <= v.size,
         v.size - at - n <= n
  PROVE  Edits(EraseCells(v, at, n, 0), v, at, <<>>, at + n)
<1> DEFINE right == v.size - at - n
           c == v.cells
           newSize == at + right
<1>1. /\ v.cap \in 0 .. MaxBlock /\ v.cap \in Nat /\ v.size \in Nat /\ v.size <= v.cap
      /\ c \in [1 .. v.cap -> Cell] /\ DOMAIN c = 1 .. v.cap
      /\ Lives(v.kind, c, v.size) /\ v.kind \in Kinds
  BY SoundIsVec, BoundsAssumption
<1>2. /\ right \in Nat /\ at + right \in Nat /\ at + n \in Nat /\ at + n + right = v.size
      /\ at + n <= v.cap /\ at + right <= at + n /\ at + n + right <= v.cap
      /\ newSize = at + right /\ newSize <= v.cap
  <2>1. right \in Nat /\ right <= n /\ at + n + right = v.size
    <3>1. PICK z \in Nat : z = v.size
      BY <1>1
    <3>2. at + n <= z /\ z - at - n <= n
      BY <3>1
    <3>3. z - at - n \in Nat /\ at + n + (z - at - n) = z
      BY <3>2
    <3> QED  BY <3>1, <3>2, <3>3
  <2>2. newSize = at + right
    OBVIOUS
  <2> HIDE DEF right, newSize
  <2>3. at + right \in Nat /\ at + n \in Nat /\ at + right <= at + n
    BY <2>1
  <2>4. at + n <= v.cap /\ at + n + right <= v.cap
    BY <1>1, <2>1
  <2>5. newSize <= v.cap
    BY <1>1, <2>2, <2>3, <2>4
  <2> QED  BY <2>1, <2>2, <2>3, <2>4, <2>5
<1>3. /\ at \in 0 .. v.size /\ at + n \in at .. v.size /\ newSize \in Nat
      /\ Fitting(v.kind, <<>>) /\ Len(<<>>) = 0
      /\ newSize = at + 0 + (v.size - (at + n))
  <2> HIDE DEF right, newSize
  <2>1. at \in 0 .. v.size /\ at + n \in at .. v.size /\ newSize \in Nat
    BY <1>1, <1>2
  <2>2. newSize = at + 0 + (v.size - (at + n))
    BY <1>1, <1>2
  <2>3. Fitting(v.kind, <<>>) /\ Len(<<>>) = 0
    BY DEF Fitting
  <2> QED  BY <2>1, <2>2, <2>3
<1>4. ASSUME Constructs(v.kind), NEW i \in 1 .. v.cap, i <= v.size
      PROVE  c[i] \in Values
  BY <1>1, <1>4 DEF Lives
<1>5. Memory(v) = Mem(c)
  BY SoundUpdated
<1>6. EraseCells(v, at, n, 0)
        = Ok(Sized(With(v, DestroyN(v.kind,
                             MoveToRawNoOverlap(v.kind, DestroyN(v.kind, Mem(c), at, n),
                                                at, at + n, right, 0),
                             at + n, right)),
                   at + right))
  BY <1>5 DEF EraseCells
<1> HIDE DEF right, c, newSize
<1>7. PICK x : DestroyN(v.kind, Mem(c), at, n) = Mem(x) /\ Cleared(x, v.kind, c, v.cap, at, n)
  <2>1. ASSUME Constructs(v.kind), NEW i \in (at + 1) .. (at + n)
        PROVE  c[i] # Raw
    <3>1. i \in 1 .. v.cap /\ i <= v.size
      BY <1>1, <1>2
    <3> QED  BY <1>4, <2>1, <3>1, BoundsAssumption
  <2> QED  BY <1>1, <1>2, <2>1, Destroyed
<1>8. x \in [1 .. v.cap -> Cell]
  BY <1>7 DEF Cleared
<1>9. ASSUME Constructs(v.kind), NEW i \in (at + n + 1) .. (at + n + right)
      PROVE  x[i] \in Values
  <2>1. i \in 1 .. v.cap /\ i <= v.size /\ ~(i <= at + n)
    BY <1>1, <1>2
  <2>2. x[i] = c[i]
    BY <1>7, <2>1 DEF Cleared
  <2> QED  BY <1>4, <1>9, <2>1, <2>2
<1>10. PICK m : /\ MoveToRawNoOverlap(v.kind, Mem(x), at, at + n, right, 0) = Mem(m)
                /\ Shifted(m, v.kind, x, v.cap, at, at + n, right)
  <2>1. ASSUME Constructs(v.kind), NEW i \in (at + 1) .. (at + right)
        PROVE  x[i] \notin Values
    <3>1. i \in 1 .. v.cap /\ at < i /\ i <= at + n
      BY <1>1, <1>2
    <3>2. x[i] = Raw
      BY <1>7, <2>1, <3>1 DEF Cleared
    <3> QED  BY <3>2, BoundsAssumption
  <2> QED  BY <1>1, <1>2, <1>8, <1>9, <2>1, MovedToRaw
<1>11. m \in [1 .. v.cap -> Cell]
  BY <1>10 DEF Shifted
<1>12. PICK d : /\ DestroyN(v.kind, Mem(m), at + n, right) = Mem(d)
                /\ Cleared(d, v.kind, m, v.cap, at + n, right)
  <2>1. ASSUME Constructs(v.kind), NEW i \in (at + n + 1) .. (at + n + right)
        PROVE  m[i] # Raw
    <3>1. i \in 1 .. v.cap /\ ~(i <= at + right) /\ at + n < i /\ i <= at + n + right
      BY <1>1, <1>2
    <3>2. m[i] = LeftBehind(v.kind, x[i])
      BY <1>10, <3>1 DEF Shifted
    <3>3. x[i] \in Values
      BY <1>9, <2>1
    <3> QED  BY <3>2, <3>3, BoundsAssumption DEF LeftBehind
  <2> QED  BY <1>1, <1>2, <1>11, <2>1, Destroyed
<1> DEFINE w == Vec(v.kind, d, newSize, v.cap)
<1>13. EraseCells(v, at, n, 0) = Ok(w)
  <2>1. With(v, Mem(d)) = Vec(v.kind, d, v.size, v.cap)
    BY SoundUpdated
  <2>2. Sized(Vec(v.kind, d, v.size, v.cap), newSize) = w
    BY VecUpdated
  <2> HIDE DEF w
  <2> QED  BY <1>2, <1>6, <1>7, <1>10, <1>12, <2>1, <2>2
<1>14. Edited(d, v, v.cap, at, <<>>, at + n, newSize)
  <2>1. ASSUME NEW i \in 1 .. v.cap
        PROVE  /\ d[i] = IF Constructs(v.kind) /\ at + n < i /\ i <= at + n + right
                         THEN Raw ELSE m[i]
               /\ m[i] = IF at < i /\ i <= at + right THEN x[i - at + (at + n)]
                         ELSE IF at + n < i /\ i <= at + n + right THEN LeftBehind(v.kind, x[i])
                         ELSE x[i]
               /\ x[i] = IF Constructs(v.kind) /\ at < i /\ i <= at + n THEN Raw ELSE c[i]
    BY <1>7, <1>10, <1>12 DEF Cleared, Shifted
  <2>2. ASSUME NEW i \in 1 .. v.cap, i <= at
        PROVE  d[i] = v.cells[i]
    <3>1. ~(at < i) /\ ~(at + n < i)
      BY <2>2
    <3> QED  BY <2>1, <3>1 DEF c
  <2>3. ASSUME NEW i \in 1 .. v.cap, at < i, i <= newSize
        PROVE  d[i] = v.cells[i - at - 0 + (at + n)]
    <3>1. ~(at + n < i) /\ i <= at + right
      BY <1>2, <2>3
    <3>2. d[i] = x[i - at + (at + n)]
      BY <2>1, <2>3, <3>1
    <3>3. PICK j : j = i - at + (at + n)
      OBVIOUS
    <3>4. j \in 1 .. v.cap /\ ~(j <= at + n) /\ j = i - at - 0 + (at + n)
      BY <1>1, <1>2, <2>3, <3>1, <3>3
    <3>5. x[j] = c[j]
      BY <2>1, <3>4
    <3> QED  BY <3>2, <3>3, <3>4, <3>5 DEF c
  <2>4. ASSUME Constructs(v.kind), NEW i \in 1 .. v.cap, i > newSize
        PROVE  d[i] \in {Raw, Blank}
    <3>1. at < i /\ ~(i <= at + right)
      BY <1>2, <2>4
    <3>2. CASE i <= at + n
      <4>1. d[i] = x[i] /\ x[i] = Raw
        BY <2>1, <2>4, <3>1, <3>2
      <4> QED  BY <4>1
    <3>3. CASE ~(i <= at + n) /\ i <= v.size
      <4>1. at + n < i /\ i <= at + n + right
        BY <1>1, <1>2, <3>3
      <4> QED  BY <2>1, <2>4, <4>1
    <3>4. CASE ~(i <= at + n) /\ ~(i <= v.size)
      <4>1. ~(i <= at + n + right)
        BY <1>2, <3>4
      <4>2. d[i] = c[i]
        BY <2>1, <3>1, <3>4, <4>1
      <4>3. c[i] \in {Raw, Blank}
        BY <1>1, <2>4, <3>4 DEF Lives
      <4> QED  BY <4>2, <4>3
    <3> QED  BY <3>2, <3>3, <3>4
  <2>5. d \in [1 .. v.cap -> Cell]
    BY <1>12 DEF Cleared
  <2>6. \A i \in 1 .. v.cap : ~(at < i /\ i <= at + 0)
    OBVIOUS
  <2> QED  BY <1>3, <2>2, <2>3, <2>4, <2>5, <2>6 DEF Edited
<1>15. Sound(w) /\ Splices(w, v, at, <<>>, at + n)
  BY <1>1, <1>2, <1>3, <1>14, EditMade
<1> HIDE DEF w
<1> QED  BY <1>13, <1>15 DEF Edits

-----------------------------------------------------------------------------
(* The methods of the vector.                                              *)

(* Nothing changed.                                                        *)
LEMMA SameEdits ==
  ASSUME NEW v, Sound(v), NEW at \in 0 .. v.size
  PROVE  Edits(Ok(v), v, at, <<>>, at)
<1>1. v.size \in Nat
  BY SoundIsVec, BoundsAssumption
<1>2. v.size = at + 0 + (v.size - at) /\ \A i \in 1 .. v.size : i - at - 0 + at = i
  BY <1>1
<1>3. \A i \in 1 .. v.size : ~(at < i /\ i <= at + 0)
  BY <1>1
<1>4. Len(<<>>) = 0
  OBVIOUS
<1>5. Splices(v, v, at, <<>>, at)
  BY <1>1, <1>2, <1>3, <1>4 DEF Splices
<1> QED  BY <1>5 DEF Edits

(* What is done to a vector with the elements of v is done to v.           *)
LEMMA DoneToSame ==
  ASSUME NEW v, Sound(v), NEW u, Sound(u), Same(u, v), NEW r
  PROVE  /\ Fails(r, u) => Fails(r, v)
         /\ \A n : MakesRoom(r, u, n) => MakesRoom(r, v, n)
         /\ \A at \in 0 .. v.size : \A from \in at .. v.size : \A p \in Seq(Cell) :
              Edits(r, u, at, p, from) => Edits(r, v, at, p, from)
<1>1. ASSUME NEW w, Same(w, u)
      PROVE  Same(w, v)
  BY <1>1 DEF Same
<1>2. ASSUME NEW at \in 0 .. v.size, NEW from \in at .. v.size, NEW p \in Seq(Cell), NEW w,
             Sound(w), Splices(w, u, at, p, from)
      PROVE  Splices(w, v, at, p, from)
  <2>1. v.size \in Nat /\ at \in Nat /\ from \in Nat /\ Len(p) \in Nat
    BY SoundIsVec, BoundsAssumption
  <2>2. w.kind = v.kind /\ w.size = at + Len(p) + (v.size - from)
    BY <1>2 DEF Splices, Same
  <2>3. ASSUME NEW i \in 1 .. w.size
        PROVE  w.cells[i] = IF i <= at THEN v.cells[i]
                            ELSE IF i <= at + Len(p) THEN p[i - at]
                            ELSE v.cells[i - at - Len(p) + from]
    <3>1. w.cells[i] = IF i <= at THEN u.cells[i]
                       ELSE IF i <= at + Len(p) THEN p[i - at]
                       ELSE u.cells[i - at - Len(p) + from]
      BY <1>2 DEF Splices
    <3>2. i \in Nat /\ 1 <= i /\ i <= at + Len(p) + (v.size - from)
      BY <2>1, <2>2
    <3>3. i <= at => i \in 1 .. v.size
      BY <2>1, <3>2
    <3>4. ~(i <= at) /\ ~(i <= at + Len(p)) => i - at - Len(p) + from \in 1 .. v.size
      BY <2>1, <3>2
    <3>5. \A j \in 1 .. v.size : u.cells[j] = v.cells[j]
      BY DEF Same
    <3>6. i <= at => u.cells[i] = v.cells[i]
      BY <3>3, <3>5
    <3>7. ~(i <= at) /\ ~(i <= at + Len(p)) =>
            u.cells[i - at - Len(p) + from] = v.cells[i - at - Len(p) + from]
      BY <3>4, <3>5
    <3> QED  BY <3>1, <3>6, <3>7
  <2> QED  BY <2>2, <2>3 DEF Splices
<1>3. Fails(r, u) => Fails(r, v)
  BY <1>1 DEF Fails
<1>4. \A n : MakesRoom(r, u, n) => MakesRoom(r, v, n)
  BY <1>1 DEF MakesRoom
<1>5. ASSUME NEW at \in 0 .. v.size, NEW from \in at .. v.size, NEW p \in Seq(Cell),
             Edits(r, u, at, p, from)
      PROVE  Edits(r, v, at, p, from)
  BY <1>2, <1>5 DEF Edits
<1> QED  BY <1>3, <1>4, <1>5

(* Room is made at the end, and the elements of s appended.                *)
LEMMA RoomAppended ==
  ASSUME NEW v, Sound(v), NEW s, Fitting(v.kind, s), NEW r,
         Fails(r, v) \/ MakesRoom(r, v, v.size + Len(s)),
         NEW fail \in 0 .. Len(s), fail # 0 => Constructs(v.kind)
  PROVE  LET q == IF Succeeds(r) THEN Appended(r.vector, s, fail) ELSE r
         IN  Fails(q, v) \/ Edits(q, v, v.size, s, v.size)
<1> DEFINE q == IF Succeeds(r) THEN Appended(r.vector, s, fail) ELSE r
<1>1. s \in Seq(Cell) /\ Len(s) \in Nat /\ v.size \in Nat
  BY SoundIsVec, BoundsAssumption DEF Fitting
<1>2. CASE Fails(r, v)
  <2>1. ~Succeeds(r)
    BY <1>2 DEF Fails, Succeeds, Result
  <2> QED  BY <1>2, <2>1
<1>3. CASE MakesRoom(r, v, v.size + Len(s))
  <2>1. PICK u : r = Ok(u) /\ Sound(u) /\ Same(u, v) /\ v.size + Len(s) <= u.cap
    BY <1>3 DEF MakesRoom
  <2>2. Succeeds(r) /\ r.vector = u
    BY <2>1 DEF Ok, Result, Succeeds
  <2>3. q = Appended(u, s, fail)
    BY <2>2
  <2>4. u.kind = v.kind /\ u.size = v.size /\ Fitting(u.kind, s) /\ u.size + Len(s) <= u.cap
    BY <2>1 DEF Same
  <2>5. CASE fail = 0
    <3>1. Edits(Appended(u, s, 0), u, u.size, s, u.size)
      BY <2>1, <2>4, AppendedAll
    <3>2. v.size \in 0 .. v.size /\ v.size \in v.size .. v.size
      BY <1>1
    <3> HIDE DEF q
    <3>3. Edits(q, u, v.size, s, v.size)
      BY <2>3, <2>4, <2>5, <3>1
    <3>4. Edits(q, v, v.size, s, v.size)
      BY <1>1, <2>1, <3>2, <3>3, DoneToSame
    <3> QED  BY <3>4 DEF q
  <2>6. CASE fail # 0
    <3>1. fail \in 1 .. Len(s) /\ Constructs(u.kind)
      BY <1>1, <2>4, <2>6
    <3>2. Fails(Appended(u, s, fail), u)
      BY <2>1, <2>4, <3>1, AppendFails
    <3> HIDE DEF q
    <3>3. Fails(q, v)
      BY <2>1, <2>3, <3>2, DoneToSame
    <3> QED  BY <3>3 DEF q
  <2> QED  BY <2>5, <2>6
<1> QED  BY <1>2, <1>3

(* An array is null, or of elements that fit; all of it is taken.          *)
LEMMA ArrayFits ==
  ASSUME NEW p \in Seq(Values), NEW kind
  PROVE  Fitting(kind, p) /\ Len(p) \in Nat /\ Taken(p, Len(p)) = p
<1>1. p \in Seq(Cell)
  <2>1. Values \subseteq Cell
    BY DEF Cell
  <2> QED  BY <2>1, SeqMonotonic
<1>2. \A i \in 1 .. Len(p) : p[i] \in Values
  OBVIOUS
<1>3. Len(p) \in Nat
  OBVIOUS
<1>4. CASE Len(p) = 0
  <2>1. p = <<>>
    BY <1>4, EmptySeq
  <2> QED  BY <1>1, <1>2, <1>4, <2>1 DEF Taken, Fitting
<1>5. CASE Len(p) # 0
  <2>1. SubSeq(p, 1, Len(p)) = p
    BY SubSeqFull
  <2> QED  BY <1>1, <1>2, <1>3, <1>5, <2>1 DEF Taken, Fitting
<1> QED  BY <1>4, <1>5

(* pushBack and pushBackN append, or refuse.                               *)
LEMMA PushedBack ==
  ASSUME NEW v, Sound(v), NEW x \in Values, NEW grow, NEW fail \in 0 .. 1,
         fail # 0 => Constructs(v.kind)
  PROVE  LET r == pushBack(v, x, grow, TRUE, fail)
         IN  Fails(r, v) \/ Edits(r, v, v.size, <<x>>, v.size)
<1>1. 1 \in 0 .. SizeMax
  BY BoundsAssumption
<1>2. PICK r : r = addSpaceIfNeed(v, 1, grow, TRUE)
  OBVIOUS
<1>3. Fails(r, v) \/ MakesRoom(r, v, v.size + 1)
  BY <1>1, <1>2, SpaceAdded
<1>4. <<x>> \in Seq(Values) /\ Len(<<x>>) = 1
  OBVIOUS
<1>5. PICK s : s = <<x>>
  OBVIOUS
<1>6. Fitting(v.kind, s) /\ Len(s) = 1
  BY <1>4, <1>5, ArrayFits
<1>7. pushBack(v, x, grow, TRUE, fail) = IF Succeeds(r) THEN Appended(r.vector, s, fail) ELSE r
  BY <1>2, <1>5 DEF pushBack
<1>8. fail \in 0 .. Len(s) /\ (Fails(r, v) \/ MakesRoom(r, v, v.size + Len(s)))
  BY <1>3, <1>6
<1>9. LET q == IF Succeeds(r) THEN Appended(r.vector, s, fail) ELSE r
      IN  Fails(q, v) \/ Edits(q, v, v.size, s, v.size)
  BY <1>6, <1>8, RoomAppended
<1> QED  BY <1>5, <1>7, <1>9

(* pushBackN appends its array, or refuses.                                *)
LEMMA PushedBackN ==
  ASSUME NEW v, Sound(v), NEW p \in Seq(Values), Len(p) <= SizeMax, NEW grow,
         NEW fail \in 0 .. Len(p), fail # 0 => Constructs(v.kind)
  PROVE  LET r == pushBackN(v, p, Len(p), grow, TRUE, fail)
         IN  Fails(r, v) \/ Edits(r, v, v.size, p, v.size)
<1>1. Len(p) \in 0 .. SizeMax /\ Fitting(v.kind, p) /\ Taken(p, Len(p)) = p
  BY BoundsAssumption, ArrayFits
<1>2. PICK r : r = addSpaceIfNeed(v, Len(p), grow, TRUE)
  OBVIOUS
<1>3. Fails(r, v) \/ MakesRoom(r, v, v.size + Len(p))
  BY <1>1, <1>2, SpaceAdded
<1>4. LET q == IF Succeeds(r) THEN Appended(r.vector, p, fail) ELSE r
      IN  Fails(q, v) \/ Edits(q, v, v.size, p, v.size)
  BY <1>1, <1>3, RoomAppended
<1>5. CASE p = NullArray /\ Len(p) # 0
  <2>1. pushBackN(v, p, Len(p), grow, TRUE, fail) = Result(v, "ErrorInvalidArgument")
    BY <1>5 DEF pushBackN
  <2> QED  BY <2>1 DEF Fails, Same
<1>6. CASE ~(p = NullArray /\ Len(p) # 0)
  <2>1. pushBackN(v, p, Len(p), grow, TRUE, fail)
          = IF Succeeds(r) THEN Appended(r.vector, p, fail) ELSE r
    BY <1>1, <1>2, <1>6 DEF pushBackN
  <2> QED  BY <1>4, <2>1
<1> QED  BY <1>5, <1>6

(* A null array is refused.                                                *)
LEMMA NullRefused ==
  ASSUME NEW v, Sound(v), NEW at, NEW grow, NEW fail, NEW moving
  PROVE  /\ Fails(pushBackN(v, NullArray, 1, grow, TRUE, fail), v)
         /\ Fails(replace(v, NullArray, 1, at, grow, fail), v)
         /\ Fails(insert(v, NullArray, 1, at, grow, moving, fail), v)
<1>1. Refusal(v, NullArray, 1, at) = "ErrorInvalidArgument"
  BY DEF Refusal
<1>2. /\ pushBackN(v, NullArray, 1, grow, TRUE, fail) = Result(v, "ErrorInvalidArgument")
      /\ replace(v, NullArray, 1, at, grow, fail) = Result(v, "ErrorInvalidArgument")
      /\ insert(v, NullArray, 1, at, grow, moving, fail) = Result(v, "ErrorInvalidArgument")
  BY <1>1 DEF pushBackN, replace, insert
<1> QED  BY <1>2 DEF Fails, Same

(* replace writes over the elements from at on, past the end if p is long. *)
LEMMA ReplacedBy ==
  ASSUME NEW v, Sound(v), NEW p \in Seq(Values), NEW at \in Nat, NEW grow
  PROVE  LET r == replace(v, p, Len(p), at, grow, 0)
         IN  \/ Fails(r, v)
             \/ at <= v.size /\ Edits(r, v, at, p, Lesser(at + Len(p), v.size))
<1> DEFINE newSize == IF at + Len(p) > v.size THEN at + Len(p) ELSE v.size
           from == Lesser(at + Len(p), v.size)
           refusal == Refusal(v, p, Len(p), at)
<1>1. Len(p) \in Nat /\ Fitting(v.kind, p) /\ Taken(p, Len(p)) = p
  BY ArrayFits
<1>2. v.size \in Nat /\ v.cap \in Nat
  BY SoundIsVec, BoundsAssumption
<1>3. CASE refusal # "NoError"
  <2>1. replace(v, p, Len(p), at, grow, 0) = Result(v, refusal)
    BY <1>3 DEF replace
  <2> QED  BY <1>3, <2>1 DEF Fails, Same
<1>4. CASE refusal = "NoError"
  <2>1. at <= v.size /\ at \in 0 .. v.size
    BY <1>2, <1>4 DEF Refusal
  <2>2. newSize \in Nat
    BY <1>1, <1>2
  <2>3. from \in at .. v.size /\ newSize = at + Len(p) + (v.size - from)
    <3>1. CASE at + Len(p) < v.size
      <4>1. from = at + Len(p) /\ newSize = v.size
        BY <1>1, <1>2, <3>1 DEF Lesser
      <4> QED  BY <1>1, <1>2, <2>1, <3>1, <4>1
    <3>2. CASE ~(at + Len(p) < v.size)
      <4>1. from = v.size /\ newSize = at + Len(p)
        BY <1>1, <1>2, <3>2 DEF Lesser
      <4> QED  BY <1>1, <1>2, <2>1, <3>2, <4>1
    <3> QED  BY <3>1, <3>2
  <2>4. CASE newSize > v.cap
    <3>1. replace(v, p, Len(p), at, grow, 0) = IntoNewBlock(v, p, at, <<>>, newSize, grow, 0)
      BY <1>1, <1>4, <2>4 DEF replace
    <3>2. from = v.size
      BY <1>1, <1>2, <2>4, SoundIsVec DEF Lesser
    <3>3. SubSeq(v.cells, from + 1, v.size) = <<>>
      BY <1>2, <3>2, SubSeqEmpty
    <3> HIDE DEF newSize, from
    <3>4. LET r == IntoNewBlock(v, p, at, SubSeq(v.cells, from + 1, v.size), newSize, grow, 0)
          IN  Fails(r, v) \/ Edits(r, v, at, p, from)
      BY <1>1, <2>1, <2>2, <2>3, NewBlockFilled
    <3> QED  BY <2>1, <3>1, <3>3, <3>4 DEF from
  <2>5. CASE ~(newSize > v.cap)
    <3>1. replace(v, p, Len(p), at, grow, 0) = ReplacedInPlace(v, p, at, newSize, 0)
      BY <1>1, <1>4, <2>5 DEF replace
    <3>2. newSize <= v.cap
      BY <1>2, <2>2, <2>5
    <3>3. newSize = IF at + Len(p) > v.size THEN at + Len(p) ELSE v.size
      OBVIOUS
    <3> HIDE DEF newSize
    <3>4. Edits(ReplacedInPlace(v, p, at, newSize, 0), v, at, p, Lesser(at + Len(p), v.size))
      BY <1>1, <2>1, <2>2, <3>2, <3>3, InPlaceReplaced
    <3> QED  BY <2>1, <3>1, <3>4
  <2> QED  BY <2>4, <2>5
<1> QED  BY <1>3, <1>4

(* insert puts p before the element at position at.                        *)
LEMMA InsertedAt ==
  ASSUME NEW v, Sound(v), NEW p \in Seq(Values), Len(p) <= MaxSize, NEW at \in Nat, NEW grow,
         ~(/\ v.kind = "copied" /\ at < v.size /\ p # <<>>
           /\ v.size + Len(p) <= v.cap)
  PROVE  LET r == insert(v, p, Len(p), at, grow, 0, 0)
         IN  \/ Fails(r, v)
             \/ at <= v.size /\ Edits(r, v, at, p, at)
<1> DEFINE refusal == Refusal(v, p, Len(p), at)
           r == insert(v, p, Len(p), at, grow, 0, 0)
           newSize == v.size + Len(p)
<1>1. Len(p) \in Nat /\ Fitting(v.kind, p) /\ Taken(p, Len(p)) = p
  BY ArrayFits
<1>2. /\ v.size \in Nat /\ v.cap \in Nat /\ v.size <= v.cap /\ v.cap <= MaxBlock
      /\ v.size \in 0 .. SizeMax /\ Len(p) \in 0 .. SizeMax /\ newSize <= SizeMax
  BY <1>1, SoundIsVec, BoundsAssumption
<1>3. Plus(v.size, Len(p)) = newSize
  BY <1>2, PlusIs
<1>4. CASE refusal # "NoError"
  <2>1. r = Result(v, refusal)
    BY <1>4 DEF insert
  <2> QED  BY <1>4, <2>1 DEF Fails, Same
<1>5. CASE refusal = "NoError"
  <2>1. at <= v.size /\ at \in 0 .. v.size /\ at \in at .. v.size
    BY <1>2, <1>5 DEF Refusal
  <2>2. newSize \in Nat /\ newSize = at + Len(p) + (v.size - at) /\ ~(newSize < v.size)
    BY <1>1, <1>2, <2>1
  <2>3. CASE newSize > v.cap
    <3>1. r = IntoNewBlock(v, p, at, SubSeq(v.cells, at + 1, v.size), newSize, grow, 0)
      BY <1>1, <1>3, <1>5, <2>2, <2>3 DEF insert
    <3> HIDE DEF newSize, r
    <3>2. LET q == IntoNewBlock(v, p, at, SubSeq(v.cells, at + 1, v.size), newSize, grow, 0)
          IN  Fails(q, v) \/ Edits(q, v, at, p, at)
      BY <1>1, <2>1, <2>2, NewBlockFilled
    <3>3. Fails(r, v) \/ (at <= v.size /\ Edits(r, v, at, p, at))
      BY <2>1, <3>1, <3>2
    <3> QED  BY <3>3 DEF r
  <2>4. CASE ~(newSize > v.cap) /\ Len(p) = 0
    <3>1. r = Ok(v)
      BY <1>3, <1>5, <2>2, <2>4 DEF insert
    <3>2. p = <<>>
      BY <2>4, EmptySeq
    <3>3. Edits(Ok(v), v, at, <<>>, at)
      BY <2>1, SameEdits
    <3> QED  BY <2>1, <3>1, <3>2, <3>3
  <2>5. CASE ~(newSize > v.cap) /\ Len(p) # 0
    <3>1. r = InsertedInPlace(v, p, at, 0, 0)
      BY <1>1, <1>3, <1>5, <2>2, <2>5 DEF insert
    <3>2. v.size + Len(p) <= v.cap /\ p # <<>>
      BY <1>1, <1>2, <2>5
    <3>3. v.kind = "copied" => at = v.size
      BY <1>2, <2>1, <3>2
    <3>4. Edits(InsertedInPlace(v, p, at, 0, 0), v, at, p, at)
      BY <1>1, <2>1, <3>2, <3>3, InPlaceInserted
    <3> HIDE DEF r
    <3>5. at <= v.size /\ Edits(r, v, at, p, at)
      BY <2>1, <3>1, <3>4
    <3> QED  BY <3>5 DEF r
  <2> QED  BY <2>3, <2>4, <2>5
<1> QED  BY <1>4, <1>5

(* LongerTail, of any vector.                                              *)
LongerTailOf(v, at, n) == 0 < n /\ n < v.size - at - n

(* erase takes n elements out, or as many as there are.                    *)
LEMMA ErasedAt ==
  ASSUME NEW v, Sound(v), NEW at \in 0 .. SizeMax, NEW n \in 0 .. SizeMax, ~LongerTailOf(v, at, n)
  PROVE  LET r == erase(v, at, n, 0)
         IN  \/ Fails(r, v)
             \/ at <= v.size /\ Edits(r, v, at, <<>>, Lesser(at + n, v.size))
<1> DEFINE r == erase(v, at, n, 0)
           refused == at > v.size \/ (at = v.size /\ n # 0)
           len == EraseLength(v, at, n)
<1>1. v.size \in Nat /\ v.size <= MaxBlock /\ v.size <= SizeMax /\ SizeMax \in Nat
  BY SoundIsVec, BoundsAssumption
<1>2. at \in Nat /\ n \in Nat
  OBVIOUS
<1>3. CASE refused
  <2>1. r = Result(v, "ErrorOverflow")
    BY <1>3 DEF erase
  <2> QED  BY <2>1 DEF Fails, Same
<1>4. CASE ~refused /\ n = 0
  <2>1. r = Ok(v)
    BY <1>4 DEF erase
  <2>2. at \in 0 .. v.size /\ Lesser(at + n, v.size) = at
    BY <1>1, <1>2, <1>4 DEF Lesser
  <2>3. Edits(Ok(v), v, at, <<>>, at)
    BY <2>2, SameEdits
  <2> QED  BY <2>1, <2>2, <2>3
<1>5. CASE ~refused /\ n # 0
  <2>1. r = EraseCells(v, at, len, 0)
    BY <1>5 DEF erase
  <2>2. at < v.size
    BY <1>1, <1>2, <1>5
  <2>3. /\ len \in Nat /\ at + len <= v.size /\ v.size - at - len <= len
        /\ at + len = Lesser(at + n, v.size)
    <3>1. PICK sum : sum = Plus(at, n)
      OBVIOUS
    <3>2. sum = IF at + n <= SizeMax THEN at + n ELSE at + n - SizeMax - 1
      BY <3>1, PlusIs
    <3>3. len = IF sum > v.size \/ sum < at THEN v.size - at ELSE n
      BY <3>1 DEF EraseLength
    <3>4. CASE at + n <= v.size
      <4>1. ~(sum > v.size) /\ ~(sum < at)
        BY <1>1, <1>2, <3>2, <3>4
      <4>2. len = n
        BY <3>3, <4>1
      <4>3. v.size - at - n <= n
        BY <1>1, <1>2, <1>5 DEF LongerTailOf
      <4>4. at + n = Lesser(at + n, v.size)
        BY <1>1, <1>2, <3>4 DEF Lesser
      <4> QED  BY <1>2, <3>4, <4>2, <4>3, <4>4
    <3>5. CASE ~(at + n <= v.size)
      <4>1. sum > v.size \/ sum < at
        BY <1>1, <1>2, <3>2, <3>5
      <4>2. len = v.size - at
        BY <3>3, <4>1
      <4>3. Lesser(at + n, v.size) = v.size
        BY <1>1, <1>2, <3>5 DEF Lesser
      <4> HIDE DEF len
      <4> QED  BY <1>1, <1>2, <2>2, <4>2, <4>3
    <3> QED  BY <3>4, <3>5
  <2> HIDE DEF len
  <2>4. Edits(EraseCells(v, at, len, 0), v, at, <<>>, at + len)
    BY <1>2, <2>3, CellsErased
  <2> HIDE DEF r
  <2>5. at <= v.size /\ Edits(r, v, at, <<>>, Lesser(at + n, v.size))
    BY <1>1, <1>2, <2>1, <2>2, <2>3, <2>4
  <2> QED  BY <2>5 DEF r
<1> QED  BY <1>3, <1>4, <1>5

(* erase of a range takes out the elements between its ends.               *)
LEMMA ErasedBetween ==
  ASSUME NEW v, Sound(v), NEW begin \in Nat, NEW end \in Nat, NEW n \in Nat,
         n = IF begin < end THEN end - begin ELSE 0, ~LongerTailOf(v, begin, n)
  PROVE  LET r == eraseRange(v, begin, end, 0)
         IN  \/ Fails(r, v)
             \/ begin <= v.size /\ Edits(r, v, begin, <<>>, Lesser(begin + n, v.size))
<1> DEFINE r == eraseRange(v, begin, end, 0)
           len == Lesser(end, v.size) - begin
<1>1. v.size \in Nat
  BY SoundIsVec, BoundsAssumption
<1>2. CASE begin > end
  <2>1. r = Result(v, "ErrorOverflow")
    BY <1>2 DEF eraseRange
  <2> QED  BY <2>1 DEF Fails, Same
<1>3. CASE ~(begin > end) /\ begin \notin 0 .. v.size - 1
  <2>1. r = Result(v, "ErrorInvalidArgument")
    BY <1>3 DEF eraseRange
  <2> QED  BY <2>1 DEF Fails, Same
<1>4. CASE begin = end /\ begin \in 0 .. v.size - 1
  <2>1. r = Ok(v)
    BY <1>4 DEF eraseRange
  <2>2. n = 0 /\ begin \in 0 .. v.size /\ begin < v.size
    BY <1>1, <1>4
  <2>3. Lesser(begin + n, v.size) = begin
    BY <1>1, <2>2 DEF Lesser
  <2>4. Edits(Ok(v), v, begin, <<>>, begin)
    BY <2>2, SameEdits
  <2> HIDE DEF r
  <2>5. begin <= v.size /\ Edits(r, v, begin, <<>>, Lesser(begin + n, v.size))
    BY <1>1, <2>1, <2>2, <2>3, <2>4
  <2> QED  BY <2>5 DEF r
<1>5. CASE begin < end /\ begin \in 0 .. v.size - 1
  <2>1. r = EraseCells(v, begin, len, 0)
    BY <1>5 DEF eraseRange
  <2>2. n = end - begin /\ begin + n = end /\ begin < v.size /\ n # 0
    BY <1>1, <1>5
  <2>3. len \in Nat /\ begin + len = Lesser(end, v.size) /\ begin + len <= v.size
        /\ v.size - begin - len <= len
    <3>1. CASE end < v.size
      <4>1. len = n /\ Lesser(end, v.size) = end
        BY <2>2, <3>1 DEF Lesser
      <4>2. v.size - begin - n <= n
        BY <1>1, <1>5, <2>2 DEF LongerTailOf
      <4> HIDE DEF len
      <4> QED  BY <1>1, <2>2, <3>1, <4>1, <4>2
    <3>2. CASE ~(end < v.size)
      <4>1. len = v.size - begin /\ Lesser(end, v.size) = v.size
        BY <3>2 DEF Lesser
      <4> HIDE DEF len
      <4> QED  BY <1>1, <2>2, <4>1
    <3> QED  BY <3>1, <3>2
  <2> HIDE DEF len
  <2>4. Edits(EraseCells(v, begin, len, 0), v, begin, <<>>, begin + len)
    BY <2>3, CellsErased
  <2> HIDE DEF r
  <2>5. begin <= v.size /\ Edits(r, v, begin, <<>>, Lesser(begin + n, v.size))
    BY <1>1, <2>1, <2>2, <2>3, <2>4
  <2> QED  BY <2>5 DEF r
<1> QED  BY <1>1, <1>2, <1>3, <1>4, <1>5

-----------------------------------------------------------------------------
(* insert of a range of iterators.                                         *)

(* Where the loop stands: the vector, the position, the elements put aside *)
(* and the status.                                                         *)
State(w, o, t, status) == [vector |-> w, offset |-> o, temp |-> t, status |-> status]

(* The state of the range loop, field by field.                            *)
LEMMA StateUpdated ==
  ASSUME NEW w, NEW o, NEW t, NEW e, NEW w2, NEW o2, NEW t2, NEW e2
  PROVE  /\ [State(w, o, t, e) EXCEPT !.vector = w2] = State(w2, o, t, e)
         /\ [State(w, o, t, e) EXCEPT !.offset = o2] = State(w, o2, t, e)
         /\ [State(w, o, t, e) EXCEPT !.temp = t2] = State(w, o, t2, e)
         /\ [State(w, o, t, e) EXCEPT !.status = e2] = State(w, o, t, e2)
  BY DEF State

(* The steps of the loop, of any state.                                    *)
LEMMA DisplacedIs ==
  ASSUME NEW u, NEW o, NEW t, NEW e
  PROVE  Displace(State(u, o, t, e)) =
           State(With(u, DestroyN(u.kind, Memory(u), o, 1)), o, Append(t, u.cells[o + 1]), e)
<1>1. PICK w2 : w2 = With(u, DestroyN(u.kind, Memory(u), o, 1))
  OBVIOUS
<1>2. PICK t2 : t2 = Append(t, u.cells[o + 1])
  OBVIOUS
<1> DEFINE st == State(u, o, t, e)
<1>3. st.vector = u /\ st.offset = o /\ st.temp = t
  BY DEF State
<1>4. Displace(st) = [[st EXCEPT !.vector = w2] EXCEPT !.temp = t2]
  <2> HIDE DEF st
  <2>1. Displace(st) = [st EXCEPT !.vector = w2, !.temp = t2]
    BY <1>1, <1>2, <1>3 DEF Displace
  <2> QED  BY <2>1
<1>5. [st EXCEPT !.vector = w2] = State(w2, o, t, e)
  BY StateUpdated
<1>6. [State(w2, o, t, e) EXCEPT !.temp = t2] = State(w2, o, t2, e)
  BY StateUpdated
<1> HIDE DEF st
<1>7. Displace(st) = State(w2, o, t2, e)
  BY Zenon, <1>4, <1>5, <1>6
<1> QED  BY <1>1, <1>2, <1>7 DEF st

Put(st, x) == PutOne(st, x, TRUE)

(* PutOne with an element that is copied.                                  *)
LEMMA PutIs ==
  ASSUME NEW u, NEW o, NEW t, NEW x,
         NEW w, w = With(u, CopyToRawNoOverlap(u.kind, Memory(u), o, <<x>>, 0)),
         NEW z, z = IF o < w.size THEN w ELSE Sized(w, o + 1)
  PROVE  Put(State(u, o, t, "NoError"), x) = State(z, o + 1, t, "NoError")
<1> DEFINE st == State(u, o, t, "NoError")
<1>2. st.vector = u /\ st.offset = o /\ st.status = "NoError"
  BY DEF State
<1>3. Put(st, x) = [[[st EXCEPT !.vector = z] EXCEPT !.offset = o + 1] EXCEPT !.status = "NoError"]
  <2> HIDE DEF st
  <2>1. Put(st, x) = [st EXCEPT !.vector = z, !.offset = o + 1, !.status = "NoError"]
    BY <1>2 DEF PutOne, Put
  <2> QED  BY <2>1
<1>4. [st EXCEPT !.vector = z] = State(z, o, t, "NoError")
  BY StateUpdated
<1>5. [State(z, o, t, "NoError") EXCEPT !.offset = o + 1] = State(z, o + 1, t, "NoError")
  BY StateUpdated
<1>6. [State(z, o + 1, t, "NoError") EXCEPT !.status = "NoError"] = State(z, o + 1, t, "NoError")
  BY StateUpdated
<1> HIDE DEF st
<1>7. Put(st, x) = State(z, o + 1, t, "NoError")
  BY Zenon, <1>3, <1>4, <1>5, <1>6
<1> QED  BY <1>7 DEF st

(* w is u with the element x at position o.                                *)
PutAt(w, u, o, x) ==
  /\ Sound(w)
  /\ w.kind = u.kind
  /\ w.size = IF o < u.size THEN u.size ELSE o + 1
  /\ \A i \in 1 .. w.size : w.cells[i] = IF i = o + 1 THEN x ELSE u.cells[i]

(* In the place of an element, which is put aside.                         *)
LEMMA PlaceTaken ==
  ASSUME NEW u, Sound(u), NEW o \in Nat, o < u.size, NEW x \in Values, NEW t
  PROVE  \E w : /\ Put(Displace(State(u, o, t, "NoError")), x)
                     = State(w, o + 1, Append(t, u.cells[o + 1]), "NoError")
                /\ PutAt(w, u, o, x)
<1> DEFINE c == u.cells
           s == <<x>>
<1>1. /\ u.cap \in 0 .. MaxBlock /\ u.cap \in Nat /\ u.size \in Nat /\ u.size <= u.cap
      /\ u.size \in 0 .. u.cap /\ u.kind \in KindsUsed
      /\ c \in [1 .. u.cap -> Cell] /\ DOMAIN c = 1 .. u.cap
      /\ Lives(u.kind, c, u.size)
  BY SoundIsVec, BoundsAssumption
<1>2. o + 1 \in 1 .. u.cap /\ o + 1 <= u.size /\ o + 1 <= u.cap
  BY <1>1
<1>3. s \in Seq(Cell) /\ Len(s) = 1 /\ s[1] = x
  BY DEF Cell
<1>4. Memory(u) = Mem(c)
  BY SoundUpdated
<1> HIDE DEF c, s
<1>5. PICK d : DestroyN(u.kind, Mem(c), o, 1) = Mem(d) /\ Cleared(d, u.kind, c, u.cap, o, 1)
  <2>1. ASSUME Constructs(u.kind), NEW i \in (o + 1) .. (o + 1)
        PROVE  c[i] # Raw
    <3>1. i = o + 1
      OBVIOUS
    <3>2. c[i] \in Values
      BY <1>1, <1>2, <2>1, <3>1 DEF Lives
    <3> QED  BY <3>2, BoundsAssumption
  <2> QED  BY <1>1, <1>2, <2>1, Destroyed
<1>6. d \in [1 .. u.cap -> Cell]
      /\ \A i \in 1 .. u.cap : d[i] = IF Constructs(u.kind) /\ i = o + 1 THEN Raw ELSE c[i]
  BY <1>1, <1>5 DEF Cleared
<1>7. PICK e : /\ CopyToRawNoOverlap(u.kind, Mem(d), o, s, 0) = Mem(e)
               /\ Filled(e, d, u.cap, o, s)
  <2>1. Constructs(u.kind) => \A i \in (o + 1) .. (o + Len(s)) : d[i] \notin Values
    BY <1>2, <1>3, <1>6, BoundsAssumption
  <2> QED  BY <1>1, <1>2, <1>3, <1>6, <2>1, CopiedToRaw
<1>8. e \in [1 .. u.cap -> Cell] /\ DOMAIN e = 1 .. u.cap
      /\ \A i \in 1 .. u.cap : e[i] = IF i = o + 1 THEN x ELSE c[i]
  <2>1. e \in [1 .. u.cap -> Cell]
    BY <1>7 DEF Filled
  <2>2. ASSUME NEW i \in 1 .. u.cap
        PROVE  e[i] = IF i = o + 1 THEN x ELSE c[i]
    <3>1. e[i] = IF o < i /\ i <= o + 1 THEN s[i - o] ELSE d[i]
      BY <1>3, <1>7 DEF Filled
    <3>2. i = o + 1 => i - o = 1
      BY <1>1
    <3>3. (o < i /\ i <= o + 1) <=> i = o + 1
      BY <1>1
    <3> QED  BY <1>3, <1>6, <3>1, <3>2, <3>3
  <2> QED  BY <2>1, <2>2
<1> DEFINE mid == Vec(u.kind, d, u.size, u.cap)
           w == Vec(u.kind, e, u.size, u.cap)
<1>9. With(u, DestroyN(u.kind, Memory(u), o, 1)) = mid
  BY <1>4, <1>5, SoundUpdated
<1>10. With(mid, CopyToRawNoOverlap(mid.kind, Memory(mid), o, s, 0)) = w
  <2>1. mid.kind = u.kind /\ Memory(mid) = Mem(d) /\ With(mid, Mem(e)) = w
    BY VecUpdated DEF Vec
  <2> QED  BY <1>7, <2>1
<1>11. w.size = u.size /\ w.kind = u.kind /\ w.cells = e
  BY DEF Vec
<1>12. Lives(u.kind, e, u.size)
  BY <1>1, <1>2, <1>8 DEF Lives
<1>13. Sound(w)
  BY <1>1, <1>8, <1>12, SoundVec
<1>14. PutAt(w, u, o, x)
  <2> HIDE DEF w
  <2>1. \A i \in 1 .. u.size : i \in 1 .. u.cap
    BY <1>1
  <2> QED  BY <1>8, <1>11, <1>13, <2>1 DEF PutAt, c
<1>15. Displace(State(u, o, t, "NoError")) = State(mid, o, Append(t, u.cells[o + 1]), "NoError")
  BY <1>9, DisplacedIs
<1> HIDE DEF mid, w
<1>16. Put(State(mid, o, Append(t, u.cells[o + 1]), "NoError"), x)
         = State(w, o + 1, Append(t, u.cells[o + 1]), "NoError")
  <2>1. PICK t2 : t2 = Append(t, u.cells[o + 1])
    OBVIOUS
  <2>2. w = With(mid, CopyToRawNoOverlap(mid.kind, Memory(mid), o, <<x>>, 0))
    BY <1>10 DEF s
  <2>3. w = IF o < w.size THEN w ELSE Sized(w, o + 1)
    BY <1>11
  <2>4. Put(State(mid, o, t2, "NoError"), x) = State(w, o + 1, t2, "NoError")
    BY <2>2, <2>3, PutIs
  <2> QED  BY <2>1, <2>4
<1> QED  BY <1>14, <1>15, <1>16

(* At the end.                                                             *)
LEMMA PlaceAdded ==
  ASSUME NEW u, Sound(u), u.size + 1 <= u.cap, NEW x \in Values, NEW t
  PROVE  \E w : /\ Put(State(u, u.size, t, "NoError"), x)
                     = State(w, u.size + 1, t, "NoError")
                /\ PutAt(w, u, u.size, x)
<1> DEFINE s == <<x>>
           m == With(u, CopyToRawNoOverlap(u.kind, Memory(u), u.size, s, 0))
<1>1. u.size \in Nat
  BY SoundIsVec, BoundsAssumption
<1>2. s \in Seq(Values) /\ Len(s) = 1 /\ s[1] = x
  OBVIOUS
<1>3. m.size = u.size
  <2>1. u = Vec(u.kind, u.cells, u.size, u.cap)
    BY SoundIsVec
  <2> QED  BY <2>1 DEF With, Vec
<1> HIDE DEF s, m
<1>4. Fitting(u.kind, s)
  BY <1>2, ArrayFits
<1>5. Edits(Appended(u, s, 0), u, u.size, s, u.size)
  BY <1>2, <1>4, AppendedAll
<1>6. Appended(u, s, 0) = Ok(Sized(m, u.size + 1))
  BY <1>2, <1>3 DEF Appended, m
<1>7. PICK w : Ok(Sized(m, u.size + 1)) = Ok(w) /\ Sound(w) /\ Splices(w, u, u.size, s, u.size)
  BY <1>5, <1>6 DEF Edits
<1>8. w = Sized(m, u.size + 1)
  BY <1>7 DEF Ok, Result
<1>9. Put(State(u, u.size, t, "NoError"), x) = State(w, u.size + 1, t, "NoError")
  <2>1. ~(u.size < m.size)
    BY <1>1, <1>3
  <2>2. PICK o : o = u.size
    OBVIOUS
  <2>3. m = With(u, CopyToRawNoOverlap(u.kind, Memory(u), o, <<x>>, 0))
    BY <2>2 DEF m, s
  <2>4. w = IF o < m.size THEN m ELSE Sized(m, o + 1)
    BY <1>8, <2>1, <2>2
  <2>5. Put(State(u, o, t, "NoError"), x) = State(w, o + 1, t, "NoError")
    BY <2>3, <2>4, PutIs
  <2> QED  BY <2>2, <2>5
<1>10. PutAt(w, u, u.size, x)
  <2>1. w.kind = u.kind /\ w.size = u.size + 1
    BY <1>1, <1>2, <1>7 DEF Splices
  <2>2. ASSUME NEW i \in 1 .. w.size
        PROVE  w.cells[i] = IF i = u.size + 1 THEN x ELSE u.cells[i]
    <3>1. w.cells[i] = IF i <= u.size THEN u.cells[i]
                       ELSE IF i <= u.size + 1 THEN s[i - u.size]
                       ELSE u.cells[i - u.size - 1 + u.size]
      BY <1>2, <1>7 DEF Splices
    <3>2. i \in 1 .. u.size + 1
      BY <2>1
    <3> QED  BY <1>1, <1>2, <3>1, <3>2
  <2>3. ~(u.size < u.size)
    BY <1>1
  <2> QED  BY <1>7, <2>1, <2>2, <2>3 DEF PutAt
<1> QED  BY <1>9, <1>10

(* How a round of the loop ends: without memory, or one element further.   *)
Halts(q, u, o, t) ==
  \E w, e : q = State(w, o, t, e) /\ e # "NoError" /\ Sound(w) /\ Same(w, u)

Goes(q, u, o, t, x) ==
  \E w : /\ q = State(w, o + 1, IF o < u.size THEN Append(t, u.cells[o + 1]) ELSE t, "NoError")
         /\ PutAt(w, u, o, x)

Round(st, x, grow, tempGrows) == RangeStep(st, x, grow, tempGrows, TRUE)

(* One round of the range loop: it halts, or puts x where the loop has come to. *)
LEMMA RoundMade ==
  ASSUME NEW u, Sound(u), NEW o \in 0 .. u.size, NEW x \in Values, NEW t, NEW grow,
         NEW tempGrows
  PROVE  \/ Halts(Round(State(u, o, t, "NoError"), x, grow, tempGrows), u, o, t)
         \/ Goes(Round(State(u, o, t, "NoError"), x, grow, tempGrows), u, o, t, x)
<1> DEFINE st == State(u, o, t, "NoError")
           q == Round(st, x, grow, tempGrows)
<1>1. u.size \in Nat /\ o \in Nat /\ o + 1 \in Nat
  BY SoundIsVec, BoundsAssumption
<1>2. PICK r : r = reserveInternal(u, o + 1, grow, TRUE)
  OBVIOUS
<1>3. Fails(r, u) \/ MakesRoom(r, u, o + 1)
  BY <1>1, <1>2, Reserved
<1>4. st.vector = u /\ st.offset = o /\ st.status = "NoError"
  BY DEF State
<1>5. CASE Fails(r, u)
  <2>1. PICK w, e : r = Result(w, e) /\ e # "NoError" /\ Sound(w) /\ Same(w, u)
    BY <1>5 DEF Fails
  <2>2. ~Succeeds(r) /\ r.status = e
    BY <2>1 DEF Succeeds, Result
  <2>3. q = [st EXCEPT !.status = e]
    <3> HIDE DEF st
    <3> QED  BY <1>2, <1>4, <2>2 DEF Round, RangeStep
  <2>4. q = State(u, o, t, e)
    BY <2>3, StateUpdated
  <2>5. Same(u, u)
    BY DEF Same
  <2> HIDE DEF q, st
  <2>6. Halts(q, u, o, t)
    BY <2>1, <2>4, <2>5 DEF Halts
  <2> QED  BY <2>6 DEF q, st
<1>6. CASE MakesRoom(r, u, o + 1)
  <2>1. PICK w : r = Ok(w) /\ Sound(w) /\ Same(w, u) /\ o + 1 <= w.cap
    BY <1>6 DEF MakesRoom
  <2>2. Succeeds(r) /\ r.vector = w
    BY <2>1 DEF Succeeds, Result, Ok
  <2>3. [st EXCEPT !.vector = w] = State(w, o, t, "NoError")
    BY StateUpdated
  <2>4. PICK room : room = State(w, o, t, "NoError")
    OBVIOUS
  <2>5. room.offset = o
    BY <2>4 DEF State
  <2>6. w.size = u.size /\ w.kind = u.kind /\ \A i \in 1 .. u.size : w.cells[i] = u.cells[i]
    BY <2>1 DEF Same
  <2>7. q = IF o >= w.size THEN Put(room, x)
            ELSE IF ~tempGrows THEN [room EXCEPT !.status = "ErrorNoMemory"]
            ELSE Put(Displace(room), x)
    <3> HIDE DEF st
    <3> QED  BY <1>2, <1>4, <2>2, <2>3, <2>4, <2>5 DEF Round, RangeStep, Put
  <2> HIDE DEF q, st
  <2>8. ASSUME NEW z, PutAt(z, w, o, x)
        PROVE  PutAt(z, u, o, x)
    <3>1. Sound(z) /\ z.kind = u.kind /\ z.size = IF o < u.size THEN u.size ELSE o + 1
      BY <2>6, <2>8 DEF PutAt
    <3>2. ASSUME NEW i \in 1 .. z.size
          PROVE  z.cells[i] = IF i = o + 1 THEN x ELSE u.cells[i]
      <4>1. z.cells[i] = IF i = o + 1 THEN x ELSE w.cells[i]
        BY <2>8 DEF PutAt
      <4>2. i # o + 1 => i \in 1 .. u.size
        BY <1>1, <3>1
      <4> QED  BY <2>6, <4>1, <4>2
    <3> QED  BY <3>1, <3>2 DEF PutAt
  <2>9. CASE o >= w.size
    <3>1. o = w.size /\ ~(o < u.size) /\ w.size + 1 <= w.cap
      BY <1>1, <2>1, <2>6, <2>9
    <3>2. PICK z : Put(State(w, w.size, t, "NoError"), x) = State(z, w.size + 1, t, "NoError")
                   /\ PutAt(z, w, w.size, x)
      BY <2>1, <3>1, PlaceAdded
    <3>3. q = State(z, o + 1, t, "NoError") /\ PutAt(z, u, o, x)
      BY <2>4, <2>7, <2>8, <2>9, <3>1, <3>2
    <3>4. Goes(q, u, o, t, x)
      BY <3>1, <3>3 DEF Goes
    <3> QED  BY <3>4 DEF q, st
  <2>10. CASE ~(o >= w.size) /\ ~tempGrows
    <3>1. q = State(w, o, t, "ErrorNoMemory")
      BY <2>4, <2>7, <2>10, StateUpdated
    <3>2. Halts(q, u, o, t)
      BY <2>1, <3>1 DEF Halts
    <3> QED  BY <3>2 DEF q, st
  <2>11. CASE ~(o >= w.size) /\ tempGrows
    <3>1. o < w.size /\ o < u.size
      BY <1>1, <2>6, <2>11
    <3>2. PICK z : /\ Put(Displace(State(w, o, t, "NoError")), x)
                        = State(z, o + 1, Append(t, w.cells[o + 1]), "NoError")
                   /\ PutAt(z, w, o, x)
      BY <1>1, <2>1, <3>1, PlaceTaken
    <3>3. w.cells[o + 1] = u.cells[o + 1]
      BY <1>1, <2>6, <3>1
    <3>4. q = State(z, o + 1, Append(t, u.cells[o + 1]), "NoError") /\ PutAt(z, u, o, x)
      BY <2>4, <2>7, <2>8, <2>11, <3>2, <3>3
    <3>5. Goes(q, u, o, t, x)
      BY <3>1, <3>4 DEF Goes
    <3> QED  BY <3>5 DEF q, st
  <2> QED  BY <2>9, <2>10, <2>11
<1> QED  BY <1>3, <1>5, <1>6

(* w is v with the first k elements of s from position at on; t is what    *)
(* stood in their place.                                                   *)
Overwritten(w, v, at, s, k) ==
  /\ Sound(w)
  /\ w.kind = v.kind
  /\ w.size = IF at + k <= v.size THEN v.size ELSE at + k
  /\ \A i \in 1 .. w.size :
       w.cells[i] = IF i <= at THEN v.cells[i] ELSE IF i <= at + k THEN s[i - at] ELSE v.cells[i]

PutAside(t, v, at, k) ==
  /\ t \in Seq(Cell)
  /\ Len(t) = IF at + k <= v.size THEN k ELSE v.size - at
  /\ \A j \in 1 .. Len(t) : t[j] = v.cells[at + j]

(* One more element written over leaves one more written over.             *)
LEMMA OneMore ==
  ASSUME NEW v, Sound(v), NEW at \in 0 .. v.size, NEW s \in Seq(Values), NEW k \in Nat,
         k + 1 <= Len(s), NEW u, Overwritten(u, v, at, s, k), NEW w, PutAt(w, u, at + k, s[k + 1])
  PROVE  Overwritten(w, v, at, s, k + 1)
<1>1. v.size \in Nat /\ at \in Nat
  BY SoundIsVec, BoundsAssumption
<1>2. w.kind = v.kind /\ Sound(w)
  BY DEF Overwritten, PutAt
<1>3. w.size = IF at + (k + 1) <= v.size THEN v.size ELSE at + (k + 1)
  <2>1. u.size = IF at + k <= v.size THEN v.size ELSE at + k
    BY DEF Overwritten
  <2>2. w.size = IF at + k < u.size THEN u.size ELSE at + k + 1
    BY DEF PutAt
  <2> QED  BY <1>1, <2>1, <2>2
<1>4. ASSUME NEW i \in 1 .. w.size
      PROVE  w.cells[i] = IF i <= at THEN v.cells[i]
                          ELSE IF i <= at + (k + 1) THEN s[i - at] ELSE v.cells[i]
  <2>1. w.cells[i] = IF i = at + k + 1 THEN s[k + 1] ELSE u.cells[i]
    BY DEF PutAt
  <2>2. i \in Nat /\ 1 <= i
    BY <1>1, <1>3
  <2>3. CASE i = at + k + 1
    <3>1. ~(i <= at) /\ i <= at + (k + 1) /\ i - at = k + 1
      BY <1>1, <2>3
    <3> QED  BY <2>1, <2>3, <3>1
  <2>4. CASE i # at + k + 1
    <3>1. u.size = IF at + k <= v.size THEN v.size ELSE at + k
      BY DEF Overwritten
    <3>2. i \in 1 .. u.size
      BY <1>1, <1>3, <2>2, <2>4, <3>1
    <3>3. u.cells[i] = IF i <= at THEN v.cells[i]
                       ELSE IF i <= at + k THEN s[i - at] ELSE v.cells[i]
      BY <3>2 DEF Overwritten
    <3>4. (i <= at + (k + 1)) <=> (i <= at + k)
      BY <1>1, <2>2, <2>4
    <3> QED  BY <2>1, <2>4, <3>3, <3>4
  <2> QED  BY <2>3, <2>4
<1> QED  BY <1>2, <1>3, <1>4 DEF Overwritten

(* One more element put aside leaves one more put aside.                   *)
LEMMA OneMoreAside ==
  ASSUME NEW v, Sound(v), NEW at \in 0 .. v.size, NEW s, NEW k \in Nat, NEW t,
         PutAside(t, v, at, k), NEW u, Overwritten(u, v, at, s, k)
  PROVE  PutAside(IF at + k < u.size THEN Append(t, u.cells[at + k + 1]) ELSE t, v, at, k + 1)
<1>1. v.size \in Nat /\ at \in Nat /\ u.size = IF at + k <= v.size THEN v.size ELSE at + k
  BY SoundIsVec, BoundsAssumption DEF Overwritten
<1>2. t \in Seq(Cell) /\ Len(t) = IF at + k <= v.size THEN k ELSE v.size - at
  BY DEF PutAside
<1>3. \A j \in 1 .. Len(t) : t[j] = v.cells[at + j]
  BY DEF PutAside
<1>4. CASE at + k < u.size
  <2>1. at + k < v.size /\ u.size = v.size /\ Len(t) = k
    BY <1>1, <1>2, <1>4
  <2>2. at + k + 1 \in 1 .. u.size /\ ~(at + k + 1 <= at) /\ ~(at + k + 1 <= at + k)
    BY <1>1, <2>1
  <2>3. u.cells[at + k + 1] = v.cells[at + k + 1]
    BY <2>2 DEF Overwritten
  <2>4. PICK x : x = u.cells[at + k + 1]
    OBVIOUS
  <2>5. x \in Cell
    <3>1. u.cells \in [1 .. u.cap -> Cell] /\ u.cap \in Nat /\ u.size \in 0 .. u.cap
      BY SoundIsVec, BoundsAssumption DEF Overwritten
    <3> QED  BY <1>1, <2>2, <2>4, <3>1
  <2>6. Append(t, x) \in Seq(Cell) /\ Len(Append(t, x)) = k + 1
        /\ \A j \in 1 .. k + 1 : Append(t, x)[j] = IF j = k + 1 THEN x ELSE t[j]
    BY <1>2, <2>1, <2>5
  <2>7. \A j \in 1 .. k + 1 : Append(t, x)[j] = v.cells[at + j]
    <3>1. ASSUME NEW j \in 1 .. k + 1
          PROVE  Append(t, x)[j] = v.cells[at + j]
      <4>1. CASE j = k + 1
        BY <1>1, <2>3, <2>4, <2>6, <4>1
      <4>2. CASE j # k + 1
        <5>1. j \in 1 .. Len(t)
          BY <2>1, <4>2
        <5> QED  BY <1>3, <2>6, <4>2, <5>1
      <4> QED  BY <4>1, <4>2
    <3> QED  BY <3>1
  <2>8. at + (k + 1) <= v.size
    BY <1>1, <2>1
  <2>9. PutAside(Append(t, x), v, at, k + 1)
    BY <2>6, <2>7, <2>8 DEF PutAside
  <2> QED  BY <1>4, <2>4, <2>9
<1>5. CASE ~(at + k < u.size)
  <2>1. Len(t) = v.size - at /\ ~(at + (k + 1) <= v.size)
    BY <1>1, <1>2, <1>5
  <2>2. PutAside(t, v, at, k + 1)
    BY <1>2, <1>3, <2>1 DEF PutAside
  <2> QED  BY <1>5, <2>2
<1> QED  BY <1>4, <1>5

(* A vector with the same elements, of another capacity.                   *)
LEMMA OverwrittenSame ==
  ASSUME NEW v, NEW at, NEW s, NEW k, NEW u, Overwritten(u, v, at, s, k),
         NEW w, Sound(w), Same(w, u)
  PROVE  Overwritten(w, v, at, s, k)
  BY DEF Overwritten, Same

(* The rounds of the loop, up to the m-th.                                 *)
Rounds(v, s, at, grow, tempGrows, m, F) ==
  [k \in 0 .. m |->
     IF k = 0 THEN State(v, at, <<>>, "NoError")
     ELSE RangeStep(F[k - 1], s[k], grow, tempGrows, k # 0)]

(* The rounds of the loop are a function, by induction over their number.  *)
LEMMA RoundsExist ==
  ASSUME NEW v, NEW s, NEW at, NEW grow, NEW tempGrows, NEW n \in Nat
  PROVE  \E F : F = Rounds(v, s, at, grow, tempGrows, n, F)
<1> DEFINE R(m, F) == F = Rounds(v, s, at, grow, tempGrows, m, F)
           first == State(v, at, <<>>, "NoError")
           Next1(q, k) == RangeStep(q, s[k], grow, tempGrows, k # 0)
           M == {m \in Nat : \E F : R(m, F)}
<1>1. 0 \in M
  <2> DEFINE f == [k \in 0 .. 0 |-> first]
  <2>1. \A k \in 0 .. 0 : k = 0
    OBVIOUS
  <2> HIDE DEF first
  <2>2. R(0, f)
    BY <2>1 DEF Rounds, first
  <2> QED  BY <2>2
<1>2. ASSUME NEW m \in Nat, m \in M
      PROVE  m + 1 \in M
  <2>1. PICK f : R(m, f)
    BY <1>2
  <2> HIDE DEF first, Next1
  <2>2. f = [k \in 0 .. m |-> IF k = 0 THEN first ELSE Next1(f[k - 1], k)]
    BY <2>1 DEF Rounds, first, Next1
  <2> DEFINE g == [k \in 0 .. m + 1 |-> IF k = m + 1 THEN Next1(f[m], m + 1) ELSE f[k]]
  <2>3. ASSUME NEW k \in 0 .. m + 1
        PROVE  g[k] = IF k = 0 THEN first ELSE Next1(g[k - 1], k)
    <3>1. CASE k = m + 1
      <4>1. k # 0 /\ k - 1 = m /\ m \in 0 .. m + 1 /\ m # m + 1
        BY <3>1
      <4>2. g[k] = Next1(f[m], m + 1) /\ g[m] = f[m]
        BY <3>1, <4>1
      <4> QED  BY <3>1, <4>1, <4>2
    <3>2. CASE k \in 0 .. m
      <4>1. k # m + 1 /\ g[k] = f[k]
        BY <3>2
      <4>2. f[k] = IF k = 0 THEN first ELSE Next1(f[k - 1], k)
        BY <2>2, <3>2
      <4>3. k # 0 => g[k - 1] = f[k - 1]
        <5>1. k # 0 => k - 1 \in 0 .. m + 1 /\ k - 1 # m + 1
          BY <3>2
        <5> QED  BY <5>1
      <4> HIDE DEF g
      <4> QED  BY <4>1, <4>2, <4>3
    <3> QED  BY <3>1, <3>2
  <2>4. g = [k \in 0 .. m + 1 |-> g[k]]
    OBVIOUS
  <2> HIDE DEF g
  <2>5. g = [k \in 0 .. m + 1 |-> IF k = 0 THEN first ELSE Next1(g[k - 1], k)]
    BY <2>3, <2>4
  <2>6. R(m + 1, g)
    BY <2>5 DEF Rounds, first, Next1
  <2> QED  BY <2>6
<1> HIDE DEF M
<1>3. n \in M
  BY <1>1, <1>2, NumbersByInduction
<1> QED  BY <1>3 DEF M

(* RangePut is the last of its rounds, and each follows from the one before. *)
LEMMA RangePutByRounds ==
  ASSUME NEW v, NEW s \in Seq(Values), NEW at, NEW grow, NEW tempGrows
  PROVE  \E F : /\ RangePut(v, s, at, grow, tempGrows, 0) = F[Len(s)]
                /\ F[0] = State(v, at, <<>>, "NoError")
                /\ \A k \in 1 .. Len(s) : F[k] = Round(F[k - 1], s[k], grow, tempGrows)
<1> DEFINE R(F) == F = Rounds(v, s, at, grow, tempGrows, Len(s), F)
           G == CHOOSE F : R(F)
<1>1. RangePut(v, s, at, grow, tempGrows, 0) = G[Len(s)]
  BY DEF RangePut, Rounds, State
<1>2. \E F : R(F)
  BY RoundsExist
<1> HIDE DEF R
<1>3. R(G)
  BY <1>2
<1> HIDE DEF G
<1>4. G = Rounds(v, s, at, grow, tempGrows, Len(s), G)
  BY <1>3 DEF R
<1>5. Len(s) \in Nat
  OBVIOUS
<1>6. \A k \in 0 .. Len(s) :
        G[k] = IF k = 0 THEN State(v, at, <<>>, "NoError")
               ELSE RangeStep(G[k - 1], s[k], grow, tempGrows, k # 0)
  BY <1>4 DEF Rounds
<1>7. ASSUME NEW k \in 1 .. Len(s)
      PROVE  G[k] = Round(G[k - 1], s[k], grow, tempGrows)
  <2>1. k \in 0 .. Len(s) /\ k # 0
    BY <1>5
  <2>2. G[k] = RangeStep(G[k - 1], s[k], grow, tempGrows, k # 0)
    BY <1>6, <2>1
  <2>3. RangeStep(G[k - 1], s[k], grow, tempGrows, k # 0)
          = RangeStep(G[k - 1], s[k], grow, tempGrows, TRUE)
    BY <2>1 DEF RangeStep, PutOne
  <2> QED  BY <2>2, <2>3 DEF Round
<1>8. G[0] = State(v, at, <<>>, "NoError")
  BY <1>5, <1>6
<1> QED  BY <1>1, <1>7, <1>8

(* The loop has put k elements, and goes on or has stopped.                *)
Stands(st, v, at, s, k, e) ==
  \E w, t : st = State(w, at + k, t, e) /\ Overwritten(w, v, at, s, k) /\ PutAside(t, v, at, k)

Stopped(st, v, at, s) ==
  \E k \in 0 .. Len(s) - 1 : \E e : e # "NoError" /\ Stands(st, v, at, s, k, e)

(* A round takes the loop from where it stands to the next place, or stops it. *)
LEMMA RoundStands ==
  ASSUME NEW v, Sound(v), NEW at \in 0 .. v.size, NEW s \in Seq(Values), NEW k \in Nat,
         k + 1 <= Len(s), NEW grow, NEW tempGrows, NEW st, Stands(st, v, at, s, k, "NoError")
  PROVE  LET q == Round(st, s[k + 1], grow, tempGrows)
         IN  Stands(q, v, at, s, k + 1, "NoError") \/ Stopped(q, v, at, s)
<1>1. PICK u, t : /\ st = State(u, at + k, t, "NoError")
                  /\ Overwritten(u, v, at, s, k) /\ PutAside(t, v, at, k)
  BY DEF Stands
<1>2. v.size \in Nat /\ at \in Nat /\ Sound(u) /\ u.size = IF at + k <= v.size THEN v.size ELSE at + k
  BY <1>1, SoundIsVec, BoundsAssumption DEF Overwritten
<1>3. at + k \in 0 .. u.size
  BY <1>2
<1>4. PICK x : x = s[k + 1]
  OBVIOUS
<1>5. x \in Values
  BY <1>4
<1>6. PICK o : o = at + k
  OBVIOUS
<1>7. PICK q : q = Round(st, s[k + 1], grow, tempGrows)
  OBVIOUS
<1>8. q = Round(State(u, o, t, "NoError"), x, grow, tempGrows) /\ o \in 0 .. u.size
  BY <1>1, <1>3, <1>4, <1>6, <1>7
<1>9. Halts(q, u, o, t) \/ Goes(q, u, o, t, x)
  BY <1>2, <1>5, <1>8, RoundMade
<1>10. ASSUME Halts(q, u, o, t)
       PROVE  Stopped(q, v, at, s)
  <2>1. PICK w, e : q = State(w, o, t, e) /\ e # "NoError" /\ Sound(w) /\ Same(w, u)
    BY <1>10 DEF Halts
  <2>2. Overwritten(w, v, at, s, k)
    BY <1>1, <2>1, OverwrittenSame
  <2>3. Stands(q, v, at, s, k, e)
    BY <1>1, <1>6, <2>1, <2>2 DEF Stands
  <2>4. k \in 0 .. Len(s) - 1
    OBVIOUS
  <2> QED  BY <2>1, <2>3, <2>4 DEF Stopped
<1>11. ASSUME Goes(q, u, o, t, x)
       PROVE  Stands(q, v, at, s, k + 1, "NoError")
  <2>1. PICK t2 : t2 = IF o < u.size THEN Append(t, u.cells[o + 1]) ELSE t
    OBVIOUS
  <2>2. PICK w : q = State(w, o + 1, t2, "NoError") /\ PutAt(w, u, o, x)
    BY <1>11, <2>1 DEF Goes
  <2>3. Overwritten(w, v, at, s, k + 1)
    BY <1>1, <1>4, <1>6, <2>2, OneMore
  <2>4. PutAside(t2, v, at, k + 1)
    BY <1>1, <1>6, <2>1, OneMoreAside
  <2>5. o + 1 = at + (k + 1)
    BY <1>2, <1>6
  <2> QED  BY <2>2, <2>3, <2>4, <2>5 DEF Stands
<1> QED  BY <1>7, <1>9, <1>10, <1>11

(* A loop that has stopped does nothing more.                              *)
LEMMA StoppedStays ==
  ASSUME NEW v, NEW at, NEW s, NEW st, Stopped(st, v, at, s), NEW x, NEW grow, NEW tempGrows
  PROVE  Round(st, x, grow, tempGrows) = st
<1>1. PICK w, o, t, e : st = State(w, o, t, e) /\ e # "NoError"
  BY DEF Stopped, Stands
<1>2. st.status # "NoError"
  BY <1>1 DEF State
<1> QED  BY <1>2 DEF Round, RangeStep

(* The loop puts all of s, or stops on the way.                            *)
LEMMA LoopStands ==
  ASSUME NEW v, Sound(v), NEW at \in 0 .. v.size, NEW s \in Seq(Values), NEW grow, NEW tempGrows
  PROVE  LET st == RangePut(v, s, at, grow, tempGrows, 0)
         IN  Stands(st, v, at, s, Len(s), "NoError") \/ Stopped(st, v, at, s)
<1>1. PICK F : /\ RangePut(v, s, at, grow, tempGrows, 0) = F[Len(s)]
               /\ F[0] = State(v, at, <<>>, "NoError")
               /\ \A k \in 1 .. Len(s) : F[k] = Round(F[k - 1], s[k], grow, tempGrows)
  BY RangePutByRounds
<1>2. v.size \in Nat /\ at \in Nat /\ Len(s) \in Nat
  BY SoundIsVec, BoundsAssumption
<1> DEFINE Good(m) == Stands(F[m], v, at, s, m, "NoError") \/ Stopped(F[m], v, at, s)
           M == {m \in Nat : m <= Len(s) => Good(m)}
<1>3. 0 \in M
  <2>1. at + 0 = at /\ at <= v.size /\ at + 0 <= v.size
    BY <1>2
  <2>2. \A i \in 1 .. v.size : i <= at + 0 => i <= at
    BY <2>1
  <2>3. Overwritten(v, v, at, s, 0)
    BY <2>1, <2>2 DEF Overwritten
  <2>4. PutAside(<<>>, v, at, 0)
    <3>1. <<>> \in Seq(Cell) /\ Len(<<>>) = 0 /\ \A j \in 1 .. 0 : FALSE
      OBVIOUS
    <3> QED  BY <2>1, <3>1 DEF PutAside
  <2>5. F[0] = State(v, at + 0, <<>>, "NoError")
    BY <1>1, <2>1
  <2>6. Stands(F[0], v, at, s, 0, "NoError")
    BY <2>3, <2>4, <2>5 DEF Stands
  <2> QED  BY <2>6
<1>4. ASSUME NEW m \in Nat, m \in M
      PROVE  m + 1 \in M
  <2> SUFFICES ASSUME m + 1 <= Len(s)
               PROVE  Good(m + 1)
    OBVIOUS
  <2>1. Good(m)
    BY <1>2, <1>4
  <2>2. F[m + 1] = Round(F[m], s[m + 1], grow, tempGrows)
    <3>1. m + 1 \in 1 .. Len(s) /\ m + 1 - 1 = m
      BY <1>2
    <3> QED  BY <1>1, <3>1
  <2>3. CASE Stands(F[m], v, at, s, m, "NoError")
    BY <2>2, <2>3, RoundStands
  <2>4. CASE Stopped(F[m], v, at, s)
    BY <2>2, <2>4, StoppedStays
  <2> QED  BY <2>1, <2>3, <2>4
<1> HIDE DEF M
<1>5. Len(s) \in M
  BY <1>2, <1>3, <1>4, NumbersByInduction
<1> QED  BY <1>1, <1>2, <1>5 DEF M

(* left is what n elements did not take the place of.                      *)
LeftOf(left, v, at, n) ==
  /\ Fitting(v.kind, left)
  /\ Len(left) = IF at + n <= v.size THEN v.size - at - n ELSE 0
  /\ \A j \in 1 .. Len(left) : left[j] = v.cells[at + n + j]

(* The elements of the vector that the range has not reached.              *)
LEMMA LeftOver ==
  ASSUME NEW v, Sound(v), NEW at \in 0 .. v.size, NEW s, NEW n \in Nat, NEW w,
         Overwritten(w, v, at, s, n), NEW left, left = SubSeq(w.cells, at + n + 1, v.size)
  PROVE  LeftOf(left, v, at, n)
<1>1. /\ v.size \in Nat /\ at \in Nat /\ Sound(w) /\ w.kind = v.kind
      /\ w.size = IF at + n <= v.size THEN v.size ELSE at + n
      /\ w.cells \in Seq(Cell)
  BY SoundIsVec, BoundsAssumption DEF Overwritten, Sound
<1>2. CASE at + n <= v.size
  <2>1. w.size = v.size /\ v.size \in 0 .. w.size /\ at + n \in 0 .. v.size
    BY <1>1, <1>2
  <2>2. PICK from : from = at + n
    OBVIOUS
  <2>3. left = SubSeq(w.cells, from + 1, v.size) /\ from \in 0 .. v.size
    BY <2>1, <2>2
  <2>4. Fitting(w.kind, left) /\ Len(left) = v.size - from
        /\ \A j \in 1 .. v.size - from : left[j] = w.cells[from + j]
    <3>1. /\ Fitting(w.kind, SubSeq(w.cells, from + 1, v.size))
          /\ Len(SubSeq(w.cells, from + 1, v.size)) = v.size - from
          /\ \A j \in 1 .. v.size - from :
               SubSeq(w.cells, from + 1, v.size)[j] = w.cells[from + j]
      BY <1>1, <2>1, <2>3, Stretch
    <3> QED  BY <2>3, <3>1
  <2>5. ASSUME NEW j \in 1 .. Len(left)
        PROVE  left[j] = v.cells[at + n + j]
    <3>1. j \in 1 .. v.size - from /\ from + j \in 1 .. w.size
      BY <1>1, <2>1, <2>2, <2>4
    <3>2. ~(from + j <= at) /\ ~(from + j <= at + n)
      BY <1>1, <2>2, <3>1
    <3>3. w.cells[from + j] = v.cells[from + j]
      BY <3>1, <3>2 DEF Overwritten
    <3> QED  BY <2>2, <2>4, <3>1, <3>3
  <2>6. Len(left) = v.size - at - n
    BY <1>1, <2>2, <2>4
  <2> QED  BY <1>1, <1>2, <2>4, <2>5, <2>6 DEF LeftOf
<1>3. CASE ~(at + n <= v.size)
  <2>1. at + n + 1 \in Int /\ v.size \in Int /\ at + n + 1 > v.size
    BY <1>1, <1>3
  <2>2. left = <<>>
    BY <1>1, <2>1, SubSeqEmpty
  <2>3. Len(left) = 0 /\ left \in Seq(Cell)
    <3>1. Len(<<>>) = 0 /\ <<>> \in Seq(Cell)
      OBVIOUS
    <3> QED  BY Zenon, <2>2, <3>1
  <2>4. \A j \in 1 .. 0 : FALSE
    OBVIOUS
  <2>5. Fitting(v.kind, left)
    BY <2>3, <2>4 DEF Fitting
  <2> QED  BY <1>3, <2>3, <2>4, <2>5 DEF LeftOf
<1> QED  BY <1>2, <1>3

(* What was put aside and what is left are the elements of v from at on.   *)
LEMMA AsideAndLeft ==
  ASSUME NEW v, Sound(v), NEW at \in 0 .. v.size, NEW n \in Nat, NEW t, PutAside(t, v, at, n),
         NEW left, LeftOf(left, v, at, n)
  PROVE  /\ Fitting(v.kind, t \o left)
         /\ Len(t \o left) = v.size - at
         /\ \A j \in 1 .. v.size - at : (t \o left)[j] = v.cells[at + j]
<1> DEFINE q == t \o left
<1>1. /\ v.size \in Nat /\ at \in Nat /\ v.cap \in Nat /\ v.size <= v.cap
      /\ v.cells \in [1 .. v.cap -> Cell] /\ DOMAIN v.cells = 1 .. v.cap
      /\ Lives(v.kind, v.cells, v.size)
  BY SoundIsVec, BoundsAssumption
<1>2. /\ left \in Seq(Cell)
      /\ Len(left) = IF at + n <= v.size THEN v.size - at - n ELSE 0
      /\ \A j \in 1 .. Len(left) : left[j] = v.cells[at + n + j]
  BY DEF LeftOf, Fitting
<1>3. t \in Seq(Cell) /\ left \in Seq(Cell)
  BY <1>2 DEF PutAside
<1>4. Len(t) = IF at + n <= v.size THEN n ELSE v.size - at
  BY DEF PutAside
<1>5. q \in Seq(Cell) /\ Len(q) = Len(t) + Len(left)
      /\ \A j \in 1 .. Len(t) + Len(left) : q[j] = IF j <= Len(t) THEN t[j] ELSE left[j - Len(t)]
  BY <1>3, ConcatProperties
<1> HIDE DEF q
<1>6. Len(q) = v.size - at
  BY <1>1, <1>4, <1>5, <1>2
<1>7. ASSUME NEW j \in 1 .. v.size - at
      PROVE  q[j] = v.cells[at + j]
  <2>1. q[j] = IF j <= Len(t) THEN t[j] ELSE left[j - Len(t)]
    BY <1>5, <1>6
  <2>2. CASE j <= Len(t)
    <3>1. j \in 1 .. Len(t)
      BY <1>3, <2>2
    <3> QED  BY <2>1, <2>2, <3>1 DEF PutAside
  <2>3. CASE ~(j <= Len(t))
    <3>1. Len(t) = n /\ j - Len(t) \in 1 .. Len(left)
      BY <1>1, <1>4, <1>2, <2>3
    <3>2. at + n + (j - Len(t)) = at + j
      BY <1>1, <3>1
    <3>3. left[j - Len(t)] = v.cells[at + n + (j - Len(t))]
      BY <1>2, <3>1
    <3> QED  BY <2>1, <2>3, <3>2, <3>3
  <2> QED  BY <2>2, <2>3
<1>8. ASSUME Constructs(v.kind), NEW j \in 1 .. Len(q)
      PROVE  q[j] \in Values
  <2>1. at + j \in 1 .. v.cap /\ at + j <= v.size /\ j \in 1 .. v.size - at
    BY <1>1, <1>6
  <2>2. v.cells[at + j] \in Values
    BY <1>1, <1>8, <2>1 DEF Lives
  <2> QED  BY <1>7, <2>1, <2>2
<1>9. Fitting(v.kind, q)
  BY <1>5, <1>8 DEF Fitting
<1> QED  BY <1>6, <1>7, <1>9 DEF q

(* The vector without the elements left over, to which those put aside and *)
(* those left over are appended again.                                     *)
LEMMA RestPutBack ==
  ASSUME NEW v, Sound(v), NEW at \in 0 .. v.size, NEW s \in Seq(Values), NEW w,
         Overwritten(w, v, at, s, Len(s)), NEW t, PutAside(t, v, at, Len(s)), NEW grow
  PROVE  LET left == SubSeq(w.cells, at + Len(s) + 1, v.size)
             b == Sized(With(w, DestroyN(w.kind, Memory(w), at + Len(s), Len(left))), at + Len(s))
             r == addSpaceIfNeed(b, Len(t \o left), grow, TRUE)
             q == IF Succeeds(r) THEN Appended(r.vector, t \o left, 0) ELSE r
         IN  \/ \E u, e : q = Result(u, e) /\ e # "NoError" /\ Sound(u) /\ u.kind = v.kind
             \/ Edits(q, v, at, s, at)
<1> DEFINE n == Len(s)
<1>1. PICK left : left = SubSeq(w.cells, at + n + 1, v.size)
  OBVIOUS
<1>2. PICK b : b = Sized(With(w, DestroyN(w.kind, Memory(w), at + n, Len(left))), at + n)
  OBVIOUS
<1>3. PICK r : r = addSpaceIfNeed(b, Len(t \o left), grow, TRUE)
  OBVIOUS
<1>4. PICK q : q = IF Succeeds(r) THEN Appended(r.vector, t \o left, 0) ELSE r
  OBVIOUS
<1>5. /\ v.size \in Nat /\ v.size <= MaxBlock /\ MaxBlock <= SizeMax /\ at \in Nat /\ n \in Nat
      /\ Sound(w) /\ w.kind = v.kind /\ w.size = IF at + n <= v.size THEN v.size ELSE at + n
  BY SoundIsVec, BoundsAssumption DEF Overwritten
<1>6. /\ w.cap \in 0 .. MaxBlock /\ w.cap \in Nat /\ w.size <= w.cap /\ w.kind \in KindsUsed
      /\ w.cells \in [1 .. w.cap -> Cell] /\ DOMAIN w.cells = 1 .. w.cap
      /\ Lives(w.kind, w.cells, w.size)
  BY <1>5, SoundIsVec, BoundsAssumption
<1> HIDE DEF n
<1>7. LeftOf(left, v, at, n)
  <2>1. Overwritten(w, v, at, s, n)
    BY DEF n
  <2>2. LeftOf(left, v, at, n)
    BY <1>5, <1>1, <2>1, LeftOver
  <2> QED  BY <2>2
<1>8. PICK all : all = t \o left
  OBVIOUS
<1>9. /\ Fitting(v.kind, all) /\ Len(all) = v.size - at
      /\ \A j \in 1 .. v.size - at : all[j] = v.cells[at + j]
  BY <1>5, <1>7, <1>8, AsideAndLeft DEF n
<1>10. /\ Len(left) \in Nat /\ at + n \in Nat /\ at + n <= w.size
      /\ at + n + Len(left) = w.size
  BY <1>5, <1>7 DEF LeftOf
<1>11. PICK d : DestroyN(w.kind, Mem(w.cells), at + n, Len(left)) = Mem(d)
               /\ Cleared(d, w.kind, w.cells, w.cap, at + n, Len(left))
  <2>1. ASSUME Constructs(w.kind), NEW i \in (at + n + 1) .. (at + n + Len(left))
        PROVE  w.cells[i] # Raw
    <3>1. i \in 1 .. w.cap /\ i <= w.size
      BY <1>6, <1>10
    <3>2. w.cells[i] \in Values
      BY <1>6, <2>1, <3>1 DEF Lives
    <3> QED  BY <3>2, BoundsAssumption
  <2>2. at + n + Len(left) <= w.cap
    BY <1>5, <1>6, <1>10
  <2> QED  BY <1>6, <1>10, <2>1, <2>2, Destroyed
<1>12. d \in [1 .. w.cap -> Cell] /\ DOMAIN d = 1 .. w.cap
      /\ \A i \in 1 .. w.cap :
           d[i] = IF Constructs(w.kind) /\ at + n < i /\ i <= w.size THEN Raw ELSE w.cells[i]
  BY <1>10, <1>11 DEF Cleared
<1>13. b = Vec(w.kind, d, at + n, w.cap)
  <2>1. Memory(w) = Mem(w.cells) /\ With(w, Mem(d)) = Vec(w.kind, d, w.size, w.cap)
    BY <1>5, SoundUpdated
  <2>2. b = Sized(Vec(w.kind, d, w.size, w.cap), at + n)
    BY <1>11, <1>2, <2>1
  <2>3. PICK m : m = at + n
    OBVIOUS
  <2>4. Sized(Vec(w.kind, d, w.size, w.cap), m) = Vec(w.kind, d, m, w.cap)
    BY VecUpdated
  <2> QED  BY <2>2, <2>3, <2>4
<1>14. Sound(b) /\ b.kind = v.kind /\ b.size = at + n /\ b.cells = d
  <2>1. ASSUME Constructs(w.kind), NEW i \in 1 .. w.cap
        PROVE  IF i <= at + n THEN d[i] \in Values ELSE d[i] \in {Raw, Blank}
    <3>1. IF i <= w.size THEN w.cells[i] \in Values ELSE w.cells[i] \in {Raw, Blank}
      BY <1>6, <2>1 DEF Lives
    <3>2. d[i] = IF at + n < i /\ i <= w.size THEN Raw ELSE w.cells[i]
      BY <1>12, <2>1
    <3>3. i <= at + n => i <= w.size
      BY <1>5, <1>6, <1>10
    <3>4. i <= at + n <=> ~(at + n < i)
      BY <1>6, <1>10
    <3> QED  BY <3>1, <3>2, <3>3, <3>4
  <2>2. Lives(w.kind, d, at + n)
    BY <1>12, <2>1 DEF Lives
  <2>3. at + n \in 0 .. w.cap
    BY <1>5, <1>6, <1>10
  <2>4. Sound(Vec(w.kind, d, at + n, w.cap))
    BY <1>6, <1>12, <2>2, <2>3, SoundVec
  <2> QED  BY <1>5, <1>13, <2>4 DEF Vec
<1>15. Fails(r, b) \/ MakesRoom(r, b, b.size + Len(all))
  <2>1. Len(all) \in 0 .. SizeMax
    BY <1>5, <1>9, BoundsAssumption
  <2> QED  BY <1>8, <1>14, <1>3, <2>1, SpaceAdded
<1>16. Fails(q, b) \/ Edits(q, b, b.size, all, b.size)
  <2>1. 0 \in 0 .. Len(all) /\ Fitting(b.kind, all)
    BY <1>5, <1>9, <1>14
  <2>2. LET z == IF Succeeds(r) THEN Appended(r.vector, all, 0) ELSE r
        IN  Fails(z, b) \/ Edits(z, b, b.size, all, b.size)
    BY <1>14, <1>15, <2>1, RoomAppended
  <2> QED  BY <1>8, <1>4, <2>2
<1>17. ASSUME Fails(q, b)
       PROVE  \E u, e : q = Result(u, e) /\ e # "NoError" /\ Sound(u) /\ u.kind = v.kind
  BY <1>14, <1>17 DEF Fails, Same
<1>18. ASSUME Edits(q, b, b.size, all, b.size)
       PROVE  Edits(q, v, at, s, at)
  <2>1. PICK z : q = Ok(z) /\ Sound(z) /\ Splices(z, b, b.size, all, b.size)
    BY <1>18 DEF Edits
  <2>2. z.kind = v.kind /\ z.size = at + n + (v.size - at)
    BY <1>5, <1>9, <1>14, <2>1 DEF Splices
  <2>3. ASSUME NEW i \in 1 .. z.size
        PROVE  z.cells[i] = IF i <= at THEN v.cells[i]
                            ELSE IF i <= at + n THEN s[i - at] ELSE v.cells[i - at - n + at]
    <3>1. z.cells[i] = IF i <= at + n THEN d[i]
                       ELSE IF i <= at + n + Len(all) THEN all[i - (at + n)]
                       ELSE d[i - (at + n) - Len(all) + (at + n)]
      BY <1>14, <2>1 DEF Splices
    <3>2. i \in Nat /\ 1 <= i /\ i <= at + n + (v.size - at)
      BY <1>5, <2>2
    <3>3. CASE i <= at + n
      <4>1. i \in 1 .. w.size /\ i \in 1 .. w.cap /\ ~(at + n < i)
        BY <1>5, <1>6, <1>10, <3>2, <3>3
      <4>2. d[i] = w.cells[i]
        BY <1>12, <4>1
      <4>3. w.cells[i] = IF i <= at THEN v.cells[i]
                         ELSE IF i <= at + n THEN s[i - at] ELSE v.cells[i]
        BY <4>1 DEF Overwritten, n
      <4> QED  BY <3>1, <3>3, <4>2, <4>3
    <3>4. CASE ~(i <= at + n)
      <4>1. i <= at + n + Len(all) /\ i - (at + n) \in 1 .. v.size - at /\ ~(i <= at)
        BY <1>5, <1>9, <3>2, <3>4
      <4>2. z.cells[i] = v.cells[at + (i - (at + n))]
        BY <1>9, <3>1, <3>4, <4>1
      <4>3. at + (i - (at + n)) = i - at - n + at
        BY <1>5, <3>2
      <4> QED  BY <3>4, <4>1, <4>2, <4>3
    <3> QED  BY <3>3, <3>4
  <2>4. Splices(z, v, at, s, at)
    BY <2>2, <2>3 DEF Splices, n
  <2> QED  BY <2>1, <2>4 DEF Edits
<1> QED  BY <1>16, <1>17, <1>18, <1>1, <1>2, <1>3, <1>4 DEF n

(* A range that could not be inserted: a part of it may have been, at the  *)
(* end; elements that were put aside are lost.                             *)
Falters(r, v, at, s, temp) ==
  \E w, e : /\ r = Result(w, e) /\ e # "NoError" /\ Sound(w)
            /\ at > v.size => w = v
            /\ at <= v.size /\ temp = <<>> =>
                 \E k \in 0 .. Len(s) - 1 :
                   Overwritten(w, v, at, s, k) /\ (k = 0 \/ at = v.size)

(* insert of a range does what insert does, or falters.                    *)
LEMMA RangeInserted ==
  ASSUME NEW v, Sound(v), NEW at \in Nat, NEW s \in Seq(Values), NEW grow, NEW tempGrows
  PROVE  LET r == insertRange(v, s, at, grow, tempGrows, 0)
             st == RangePut(v, s, at, grow, tempGrows, 0)
         IN  \/ Falters(r, v, at, s, st.temp)
             \/ at <= v.size /\ Edits(r, v, at, s, at)
<1>1. PICK st : st = RangePut(v, s, at, grow, tempGrows, 0)
  OBVIOUS
<1>2. PICK r : r = insertRange(v, s, at, grow, tempGrows, 0)
  OBVIOUS
<1>3. v.size \in Nat /\ Len(s) \in Nat
  BY SoundIsVec, BoundsAssumption
<1>4. CASE at > v.size
  <2>1. at \notin 0 .. v.size
    BY <1>3, <1>4
  <2>2. r = Result(v, "ErrorOverflow")
    BY <1>2, <2>1 DEF insertRange
  <2>3. ~(at <= v.size)
    BY <1>3, <1>4
  <2>4. Falters(r, v, at, s, st.temp)
    BY <2>2, <2>3 DEF Falters
  <2> QED  BY <1>1, <1>2, <2>4
<1>5. CASE ~(at > v.size)
  <2>1. at \in 0 .. v.size /\ at <= v.size
    BY <1>3, <1>5
  <2>2. Stands(st, v, at, s, Len(s), "NoError") \/ Stopped(st, v, at, s)
    BY <1>1, <2>1, LoopStands
  <2>3. CASE Stopped(st, v, at, s)
    <3>0. PICK k \in 0 .. Len(s) - 1 : \E e : e # "NoError" /\ Stands(st, v, at, s, k, e)
      BY <2>3 DEF Stopped
    <3>1. PICK e : e # "NoError" /\ Stands(st, v, at, s, k, e)
      BY <3>0
    <3>2. PICK w, t : /\ st = State(w, at + k, t, e)
                      /\ Overwritten(w, v, at, s, k) /\ PutAside(t, v, at, k)
      BY <3>1 DEF Stands
    <3>3. st.vector = w /\ st.status = e /\ st.temp = t
      BY <3>2 DEF State
    <3>4. r = Result(w, e)
      BY <1>1, <1>2, <2>1, <3>1, <3>3 DEF insertRange
    <3>5. t = <<>> => k = 0 \/ at = v.size
      <4>1. Len(t) = IF at + k <= v.size THEN k ELSE v.size - at
        BY <3>2 DEF PutAside
      <4>2. Len(<<>>) = 0
        OBVIOUS
      <4>3. t = <<>> => Len(t) = 0
        BY Zenon, <4>2
      <4> QED  BY <1>3, <2>1, <4>1, <4>3
    <3>6. Sound(w)
      BY <3>2 DEF Overwritten
    <3>7. Falters(r, v, at, s, st.temp)
      BY <1>5, <3>1, <3>2, <3>3, <3>4, <3>5, <3>6 DEF Falters
    <3> QED  BY <1>1, <1>2, <3>7
  <2>4. CASE Stands(st, v, at, s, Len(s), "NoError")
    <3>1. PICK w, t : /\ st = State(w, at + Len(s), t, "NoError")
                      /\ Overwritten(w, v, at, s, Len(s)) /\ PutAside(t, v, at, Len(s))
      BY <2>4 DEF Stands
    <3>2. st.vector = w /\ st.offset = at + Len(s) /\ st.status = "NoError" /\ st.temp = t
      BY <3>1 DEF State
    <3>3. CASE t = <<>>
      <4>1. r = Ok(w)
        BY <1>1, <1>2, <2>1, <3>2, <3>3 DEF insertRange
      <4>2. Len(s) = 0 \/ at = v.size
        <5>1. Len(t) = IF at + Len(s) <= v.size THEN Len(s) ELSE v.size - at
          BY <3>1 DEF PutAside
        <5>2. Len(<<>>) = 0
          OBVIOUS
        <5>3. Len(t) = 0
          BY Zenon, <3>3, <5>2
        <5> QED  BY <1>3, <2>1, <5>1, <5>3
      <4>3. Sound(w) /\ w.kind = v.kind
            /\ w.size = IF at + Len(s) <= v.size THEN v.size ELSE at + Len(s)
        BY <3>1 DEF Overwritten
      <4>4. w.size = at + Len(s) + (v.size - at)
        BY <1>3, <2>1, <4>2, <4>3
      <4>5. ASSUME NEW i \in 1 .. w.size
            PROVE  w.cells[i] = IF i <= at THEN v.cells[i]
                                ELSE IF i <= at + Len(s) THEN s[i - at]
                                ELSE v.cells[i - at - Len(s) + at]
        <5>1. w.cells[i] = IF i <= at THEN v.cells[i]
                           ELSE IF i <= at + Len(s) THEN s[i - at] ELSE v.cells[i]
          BY <3>1 DEF Overwritten
        <5>2. ~(i <= at + Len(s)) => i - at - Len(s) + at = i
          BY <1>3, <2>1, <4>2, <4>4
        <5> QED  BY <5>1, <5>2
      <4>6. Splices(w, v, at, s, at)
        BY <4>3, <4>4, <4>5 DEF Splices
      <4>7. Edits(r, v, at, s, at)
        BY <4>1, <4>3, <4>6 DEF Edits
      <4> QED  BY <1>2, <2>1, <4>7
    <3>4. CASE t # <<>>
      <4> DEFINE left == SubSeq(w.cells, at + Len(s) + 1, v.size)
                 b == Sized(With(w, DestroyN(w.kind, Memory(w), at + Len(s), Len(left))), at + Len(s))
                 z == addSpaceIfNeed(b, Len(t \o left), grow, TRUE)
                 q == IF Succeeds(z) THEN Appended(z.vector, t \o left, 0) ELSE z
      <4>1. r = q
        BY <1>1, <1>2, <2>1, <3>2, <3>4 DEF insertRange
      <4>2. \/ \E u, e : q = Result(u, e) /\ e # "NoError" /\ Sound(u) /\ u.kind = v.kind
            \/ Edits(q, v, at, s, at)
        BY <2>1, <3>1, RestPutBack
      <4> HIDE DEF q
      <4>3. Falters(r, v, at, s, st.temp) \/ Edits(r, v, at, s, at)
        BY <1>5, <3>2, <3>4, <4>1, <4>2 DEF Falters
      <4> QED  BY <1>1, <1>2, <2>1, <4>3
    <3> QED  BY <3>3, <3>4
  <2> QED  BY <2>2, <2>3, <2>4
<1> QED  BY <1>4, <1>5

-----------------------------------------------------------------------------
(* The methods that set the size, read, empty and initialise.              *)

(* The size is set to n, and the elements below it stay.                   *)
Resizes(r, v, n) ==
  \E w : /\ r = Ok(w) /\ Sound(w)
         /\ w.kind = v.kind /\ w.size = n
         /\ \A i \in 1 .. n : i <= v.size => w.cells[i] = v.cells[i]

(* setSize of a vector of bytes.                                           *)
LEMMA SizeSet ==
  ASSUME NEW v, Sound(v), ~Constructs(v.kind), NEW n \in Nat, NEW grow
  PROVE  Fails(setSize(v, n, grow), v) \/ Resizes(setSize(v, n, grow), v, n)
<1>1. PICK r : r = reserveInternal(v, n, grow, TRUE)
  OBVIOUS
<1>2. Fails(r, v) \/ MakesRoom(r, v, n)
  BY <1>1, Reserved
<1>3. setSize(v, n, grow) = IF Succeeds(r) THEN Ok(Sized(r.vector, n)) ELSE r
  BY <1>1 DEF setSize
<1>4. CASE Fails(r, v)
  <2>1. ~Succeeds(r)
    BY <1>4 DEF Fails, Succeeds, Result
  <2> QED  BY <1>3, <1>4, <2>1
<1>5. CASE MakesRoom(r, v, n)
  <2>1. PICK w : r = Ok(w) /\ Sound(w) /\ Same(w, v) /\ n <= w.cap
    BY <1>5 DEF MakesRoom
  <2>2. Succeeds(r) /\ r.vector = w
    BY <2>1 DEF Ok, Result, Succeeds
  <2>3. /\ w.cap \in 0 .. MaxBlock /\ w.cap \in Nat /\ w.kind \in KindsUsed
        /\ w.cells \in [1 .. w.cap -> Cell] /\ w.kind = v.kind
    BY <2>1, SoundIsVec, BoundsAssumption DEF Same
  <2>4. PICK z : z = Vec(w.kind, w.cells, n, w.cap)
    OBVIOUS
  <2>5. setSize(v, n, grow) = Ok(z)
    <3>1. Sized(w, n) = z
      BY <2>1, <2>4, SoundUpdated
    <3> QED  BY <1>3, <2>2, <3>1
  <2>6. Sound(z)
    <3>1. Lives(w.kind, w.cells, n) /\ n \in 0 .. w.cap
      BY <2>1, <2>3 DEF Lives
    <3> QED  BY <2>3, <2>4, <3>1, SoundVec
  <2>7. z.kind = v.kind /\ z.size = n /\ z.cells = w.cells
    BY <2>3, <2>4 DEF Vec
  <2>8. \A i \in 1 .. n : i <= v.size => z.cells[i] = v.cells[i]
    <3>1. v.size \in Nat
      BY SoundIsVec, BoundsAssumption
    <3>2. \A i \in 1 .. n : i <= v.size => i \in 1 .. v.size
      BY <3>1
    <3> QED  BY <2>1, <2>7, <3>2 DEF Same
  <2>9. Resizes(setSize(v, n, grow), v, n)
    BY <2>5, <2>6, <2>7, <2>8 DEF Resizes
  <2> QED  BY <2>9
<1> QED  BY <1>2, <1>4, <1>5

(* Elements are read where there are some.                                 *)
LEMMA ReadHere ==
  ASSUME NEW v, Sound(v), NEW at \in Nat, NEW n \in Nat, at + n <= v.size
  PROVE  [v EXCEPT !.faults = @ \cup DeadSources(v.kind, v.cells, at, n)] = v
<1>1. /\ v.cap \in Nat /\ v.size \in Nat /\ v.size <= v.cap /\ DOMAIN v.cells = 1 .. v.cap
      /\ Lives(v.kind, v.cells, v.size) /\ v.faults = {}
  BY SoundIsVec, BoundsAssumption
<1>2. ASSUME NEW i \in Cells(at, n), Constructs(v.kind)
      PROVE  i \in DOMAIN v.cells /\ v.cells[i] \in Values
  <2>1. i \in 1 .. v.cap /\ i <= v.size
    BY <1>1 DEF Cells
  <2> QED  BY <1>1, <1>2, <2>1 DEF Lives
<1>3. {i \in Cells(at, n) :
         Constructs(v.kind) /\ (i \notin DOMAIN v.cells \/ v.cells[i] \notin Values)} = {}
  BY <1>2
<1>4. DeadSources(v.kind, v.cells, at, n) = {}
  BY <1>3 DEF DeadSources, Blame
<1>5. v = Vec(v.kind, v.cells, v.size, v.cap)
  BY SoundIsVec
<1>6. [v EXCEPT !.faults = {}] = v
  BY <1>5 DEF Vec
<1>7. v.faults \cup {} = {}
  BY <1>1
<1> QED  BY <1>4, <1>6, <1>7

(* copyN reads elements, or refuses.                                       *)
LEMMA CopiedN ==
  ASSUME NEW v, Sound(v), NEW at \in 0 .. MaxBlock, NEW n \in 0 .. MaxSize + 1,
         NEW null, NEW fail
  PROVE  LET r == copyN(v, at, n, null, fail)
         IN  /\ r.vector = v
             /\ Succeeds(r) => /\ at <= v.size
                               /\ at + CopyLength(v, at, n) = Lesser(at + n, v.size)
<1> DEFINE len == CopyLength(v, at, n)
           r == copyN(v, at, n, null, fail)
           refused == \/ null /\ n # 0
                      \/ at > v.size \/ (at = v.size /\ n # 0)
<1>1. v.size \in Nat /\ v.size <= MaxBlock /\ at \in Nat /\ n \in Nat /\ at <= MaxBlock
  BY SoundIsVec, BoundsAssumption
<1>2. Plus(at, n) = at + n
  <2>1. at \in 0 .. SizeMax /\ n \in 0 .. SizeMax /\ at + n <= SizeMax
    BY <1>1, BoundsAssumption
  <2> QED  BY <2>1, PlusIs
<1>3. CASE refused
  <2>1. r = Result(v, "ErrorInvalidArgument") \/ r = Result(v, "ErrorOverflow")
    BY <1>3 DEF copyN
  <2>2. r.vector = v /\ ~Succeeds(r)
    BY <2>1 DEF Result, Succeeds
  <2> QED  BY <2>2
<1>4. CASE ~refused
  <2>1. at <= v.size
    BY <1>1, <1>4
  <2>2. len \in Nat /\ at + len <= v.size /\ at + len = Lesser(at + n, v.size)
    BY <1>1, <1>2, <2>1 DEF CopyLength, Lesser
  <2> HIDE DEF len
  <2>3. [v EXCEPT !.faults = @ \cup DeadSources(v.kind, v.cells, at, len)] = v
    BY <1>1, <2>2, ReadHere
  <2>4. r = Result(v, IF fail THEN "ErrorElement" ELSE "NoError")
    BY <1>4, <2>3 DEF copyN, len
  <2>5. r.vector = v
    BY <2>4 DEF Result
  <2> QED  BY <2>1, <2>2, <2>5 DEF len
<1> QED  BY <1>3, <1>4

(* One field of a vector, or none.                                         *)
LEMMA VecFields ==
  ASSUME NEW kind, NEW c, NEW size, NEW cap, NEW d, NEW n
  PROVE  /\ [Vec(kind, c, size, cap) EXCEPT !.cells = d] = Vec(kind, d, size, cap)
         /\ [Vec(kind, c, size, cap) EXCEPT !.cap = n] = Vec(kind, c, size, n)
         /\ [Vec(kind, c, size, cap) EXCEPT !.faults = {}] = Vec(kind, c, size, cap)
  BY DEF Vec

(* The elements of v are destroyed, and nothing else is left.              *)
Emptied(w, v) == Sound(w) /\ w.kind = v.kind /\ w.size = 0

(* An empty vector is sound.                                               *)
LEMMA EmptySound ==
  ASSUME NEW kind \in KindsUsed
  PROVE  /\ Empty(kind) = Vec(kind, <<>>, 0, 0) /\ Sound(Empty(kind))
         /\ [Empty(kind) EXCEPT !.faults = {}] = Empty(kind)
<1>1. Empty(kind) = Vec(kind, <<>>, 0, 0)
  BY DEF Empty, Vec
<1>2. <<>> \in [1 .. 0 -> Cell]
  OBVIOUS
<1>3. Lives(kind, <<>>, 0)
  BY DEF Lives
<1>4. 0 \in 0 .. MaxBlock /\ 0 \in 0 .. 0
  BY BoundsAssumption
<1>5. [Empty(kind) EXCEPT !.faults = {}] = Empty(kind)
  <2>1. PICK c : c = <<>>
    OBVIOUS
  <2>2. PICK n : n = 0
    OBVIOUS
  <2>3. [Vec(kind, c, n, n) EXCEPT !.faults = {}] = Vec(kind, c, n, n)
    BY DEF Vec
  <2>4. Empty(kind) = Vec(kind, c, n, n)
    BY Zenon, <1>1, <2>1, <2>2
  <2> QED  BY Zenon, <2>3, <2>4
<1>6. Sound(Vec(kind, <<>>, 0, 0))
  BY <1>2, <1>3, <1>4, SoundVec
<1> QED  BY <1>1, <1>5, <1>6

(* clear destroys every element and keeps the block.                       *)
LEMMA ClearedWhole ==
  ASSUME NEW v, Sound(v)
  PROVE  Emptied(clear(v), v) /\ clear(v).cap = v.cap
<1>1. /\ v.cap \in 0 .. MaxBlock /\ v.cap \in Nat /\ v.size \in Nat /\ v.size <= v.cap
      /\ v.kind \in KindsUsed
      /\ v.cells \in [1 .. v.cap -> Cell] /\ DOMAIN v.cells = 1 .. v.cap
      /\ Lives(v.kind, v.cells, v.size)
  BY SoundIsVec, BoundsAssumption
<1>2. Memory(v) = Mem(v.cells)
  BY SoundUpdated
<1>3. PICK d : /\ DestroyN(v.kind, Mem(v.cells), 0, v.size) = Mem(d)
               /\ Cleared(d, v.kind, v.cells, v.cap, 0, v.size)
  <2>1. Constructs(v.kind) => \A i \in (0 + 1) .. (0 + v.size) : v.cells[i] # Raw
    BY <1>1, BoundsAssumption DEF Lives
  <2>2. 0 \in Nat /\ 0 + v.size <= v.cap
    BY <1>1
  <2> QED  BY <1>1, <2>1, <2>2, Destroyed
<1>4. clear(v) = Vec(v.kind, d, 0, v.cap)
  <2>1. With(v, Mem(d)) = Vec(v.kind, d, v.size, v.cap)
    BY SoundUpdated
  <2>2. clear(v) = Sized(Vec(v.kind, d, v.size, v.cap), 0)
    BY <1>2, <1>3, <2>1 DEF clear
  <2> QED  BY <2>2, VecUpdated
<1>5. d \in [1 .. v.cap -> Cell] /\ Lives(v.kind, d, 0)
  <2>1. d \in [1 .. v.cap -> Cell] /\ DOMAIN d = 1 .. v.cap
    BY <1>3 DEF Cleared
  <2>2. \A i \in 1 .. v.cap : ~(i <= 0) /\ 0 < i /\ (i <= 0 + v.size <=> i <= v.size)
    BY <1>1
  <2>3. \A i \in 1 .. v.cap :
          d[i] = IF Constructs(v.kind) /\ i <= v.size THEN Raw ELSE v.cells[i]
    BY <1>3, <2>2 DEF Cleared
  <2> QED  BY <1>1, <2>1, <2>2, <2>3 DEF Lives
<1>6. Sound(clear(v))
  <2>1. 0 \in 0 .. v.cap
    BY <1>1
  <2> QED  BY <1>1, <1>4, <1>5, <2>1, SoundVec
<1> QED  BY <1>4, <1>6 DEF Emptied, Vec

(* The block of a vector without elements is given back.                   *)
LEMMA FreedWhole ==
  ASSUME NEW v, Sound(v), v.size = 0
  PROVE  Freed(v) = Empty(v.kind) /\ Emptied(Freed(v), v)
<1>1. /\ v.cap \in Nat /\ v.kind \in KindsUsed /\ DOMAIN v.cells = 1 .. v.cap
      /\ Lives(v.kind, v.cells, 0)
  BY SoundIsVec, BoundsAssumption
<1>2. Memory(v) = Mem(v.cells)
  BY SoundUpdated
<1>3. {i \in 1 .. v.cap : Constructs(v.kind) /\ v.cells[i] \in Values} = {}
  <2>1. \A i \in 1 .. v.cap : ~(i <= 0)
    BY <1>1
  <2> QED  BY <1>1, <2>1, BoundsAssumption DEF Lives
<1>4. Deallocate(v.kind, Mem(v.cells)) = {}
  <2>1. Mem(v.cells).cells = v.cells /\ Mem(v.cells).faults = {}
    BY DEF Mem
  <2> QED  BY <1>1, <1>3, <2>1 DEF Deallocate, Blame
<1>5. Freed(v) = [Empty(v.kind) EXCEPT !.faults = {}]
  BY <1>2, <1>4 DEF Freed
<1>6. [Empty(v.kind) EXCEPT !.faults = {}] = Empty(v.kind)
  BY <1>1, EmptySound
<1>7. Sound(Empty(v.kind)) /\ Empty(v.kind).kind = v.kind /\ Empty(v.kind).size = 0
  <2>1. Empty(v.kind).kind = v.kind /\ Empty(v.kind).size = 0
    BY DEF Empty
  <2> QED  BY <1>1, <2>1, EmptySound
<1> QED  BY <1>5, <1>6, <1>7 DEF Emptied

(* clear, invalidate and release leave a sound vector with no element.     *)
LEMMA Dropping ==
  ASSUME NEW v, Sound(v)
  PROVE  Emptied(clear(v), v) /\ Emptied(invalidate(v), v) /\ Emptied(release(v), v)
<1>1. Emptied(clear(v), v)
  BY ClearedWhole
<1>2. Emptied(invalidate(v), v)
  <2>1. PICK w : w = clear(v)
    OBVIOUS
  <2>2. Sound(w) /\ w.size = 0 /\ w.kind = v.kind
    BY <1>1, <2>1 DEF Emptied
  <2>3. Emptied(Freed(w), w)
    BY <2>2, FreedWhole
  <2> QED  BY <2>1, <2>2, <2>3 DEF invalidate, Emptied
<1>3. Emptied(release(v), v)
  <2>1. v.faults = {} /\ v.kind \in KindsUsed
    BY SoundIsVec
  <2>2. release(v) = Empty(v.kind)
    BY <2>1, EmptySound DEF release
  <2>3. Empty(v.kind).kind = v.kind /\ Empty(v.kind).size = 0
    BY DEF Empty
  <2> QED  BY <2>1, <2>2, <2>3, EmptySound DEF Emptied
<1> QED  BY <1>1, <1>2, <1>3

(* An init method makes v hold s, or loses what v held.                    *)
Takes(r, v, s) ==
  \E w : /\ r = Ok(w) /\ Sound(w)
         /\ w.kind = v.kind /\ w.size = Len(s)
         /\ \A i \in 1 .. Len(s) : w.cells[i] = s[i]

Loses(r, v) ==
  \E w, e : r = Result(w, e) /\ e # "NoError" /\ Emptied(w, v)

(* What is appended to an empty vector is all it holds.                    *)
LEMMA AppendedToEmpty ==
  ASSUME NEW v, Sound(v), NEW s \in Seq(Values), NEW w, Emptied(w, v), Len(s) <= w.cap,
         NEW fail \in 0 .. Len(s), fail # 0 => Constructs(v.kind)
  PROVE  Takes(Appended(w, s, fail), v, s) \/ Loses(Appended(w, s, fail), v)
<1>1. Sound(w) /\ w.kind = v.kind /\ w.size = 0 /\ Len(s) \in Nat
  BY DEF Emptied
<1>2. Fitting(w.kind, s) /\ w.size + Len(s) <= w.cap
  BY <1>1, ArrayFits
<1>3. CASE fail = 0
  <2>1. Edits(Appended(w, s, 0), w, w.size, s, w.size)
    BY <1>1, <1>2, AppendedAll
  <2>2. PICK z : Appended(w, s, 0) = Ok(z) /\ Sound(z) /\ Splices(z, w, 0, s, 0)
    BY <1>1, <2>1 DEF Edits
  <2>3. z.kind = v.kind /\ z.size = Len(s)
    BY <1>1, <2>2 DEF Splices
  <2>4. ASSUME NEW i \in 1 .. Len(s)
        PROVE  z.cells[i] = s[i]
    <3>1. z.cells[i] = IF i <= 0 THEN w.cells[i]
                       ELSE IF i <= 0 + Len(s) THEN s[i - 0]
                       ELSE w.cells[i - 0 - Len(s) + 0]
      BY <2>2, <2>3 DEF Splices
    <3>2. ~(i <= 0) /\ i <= 0 + Len(s) /\ i - 0 = i
      BY <1>1
    <3> QED  BY <3>1, <3>2
  <2>5. Takes(Appended(w, s, fail), v, s)
    BY <1>3, <2>2, <2>3, <2>4 DEF Takes
  <2> QED  BY <2>5
<1>4. CASE fail # 0
  <2>1. Fails(Appended(w, s, fail), w)
    BY <1>1, <1>2, <1>4, AppendFails
  <2>2. Loses(Appended(w, s, fail), v)
    BY <1>1, <2>1 DEF Fails, Same, Loses, Emptied
  <2> QED  BY <2>2
<1> QED  BY <1>3, <1>4

(* init by copy takes the elements of s, or loses its own.                 *)
LEMMA InitCopied ==
  ASSUME NEW v, Sound(v), NEW s \in Seq(Values), NEW grow,
         NEW fail \in 0 .. Len(s), fail # 0 => Constructs(v.kind)
  PROVE  Takes(initCopy(v, s, grow, fail), v, s) \/ Loses(initCopy(v, s, grow, fail), v)
<1>1. PICK w : w = clear(v)
  OBVIOUS
<1>2. Emptied(w, v) /\ w.cap = v.cap
  BY <1>1, ClearedWhole
<1>3. Sound(w) /\ w.kind = v.kind /\ w.size = 0 /\ v.kind \in KindsUsed /\ Len(s) \in Nat
      /\ v.cap \in Nat
  BY <1>2, SoundIsVec, BoundsAssumption DEF Emptied
<1>4. PICK a : a = Allocated(Len(s), grow)
  OBVIOUS
<1>5. Freed(w) = Empty(v.kind)
  BY <1>3, FreedWhole
<1>6. CASE Len(s) <= v.cap
  <2>1. initCopy(v, s, grow, fail) = Appended(w, s, fail)
    BY <1>1, <1>6 DEF initCopy
  <2> QED  BY <1>2, <1>6, <2>1, AppendedToEmpty
<1>7. CASE ~(Len(s) <= v.cap) /\ a = 0
  <2>1. initCopy(v, s, grow, fail) = Result(Empty(v.kind), "ErrorNoMemory")
    BY <1>1, <1>4, <1>5, <1>7 DEF initCopy
  <2>2. Emptied(Empty(v.kind), v)
    <3>1. Empty(v.kind).kind = v.kind /\ Empty(v.kind).size = 0
      BY DEF Empty
    <3> QED  BY <1>3, <3>1, EmptySound DEF Emptied
  <2>3. Loses(initCopy(v, s, grow, fail), v)
    BY <2>1, <2>2 DEF Loses
  <2> QED  BY <2>3
<1>8. CASE ~(Len(s) <= v.cap) /\ a # 0
  <2>1. a \in Nat /\ Len(s) <= a /\ a \in 0 .. MaxBlock
    BY <1>3, <1>4, <1>8, AllocatedEnough, BoundsAssumption
  <2>2. PICK d : d = RawCells(a)
    OBVIOUS
  <2>3. d \in [1 .. a -> Cell] /\ \A i \in 1 .. a : d[i] = Raw
    BY <2>2 DEF RawCells, Cell
  <2>4. PICK nw : nw = Vec(v.kind, d, 0, a)
    OBVIOUS
  <2>5. [Empty(v.kind) EXCEPT !.cells = d, !.cap = a] = nw
    <3>1. PICK kind, c, n : kind = v.kind /\ c = <<>> /\ n = 0
      OBVIOUS
    <3>2. [Vec(kind, c, n, n) EXCEPT !.cells = d] = Vec(kind, d, n, n)
      BY VecFields
    <3>3. [Vec(kind, d, n, n) EXCEPT !.cap = a] = Vec(kind, d, n, a)
      BY VecFields
    <3>4. Empty(v.kind) = Vec(v.kind, <<>>, 0, 0)
      BY <1>3, EmptySound
    <3>5. Empty(kind) = Vec(kind, c, n, n)
      BY Zenon, <3>1, <3>4
    <3>6. [Empty(kind) EXCEPT !.cells = d, !.cap = a] = [[Empty(kind) EXCEPT !.cells = d] EXCEPT !.cap = a]
      OBVIOUS
    <3>7. [Empty(kind) EXCEPT !.cells = d, !.cap = a] = Vec(kind, d, n, a)
      BY Zenon, <3>2, <3>3, <3>5, <3>6
    <3> QED  BY Zenon, <2>4, <3>1, <3>7
  <2>6. initCopy(v, s, grow, fail) = Appended(nw, s, fail)
    BY <1>1, <1>4, <1>5, <1>8, <2>2, <2>5 DEF initCopy
  <2>7. Emptied(nw, v) /\ Len(s) <= nw.cap
    <3>1. Lives(v.kind, d, 0)
      BY <2>3, BoundsAssumption DEF Lives
    <3>2. 0 \in 0 .. a
      BY <2>1
    <3>3. Sound(nw)
      BY <1>3, <2>1, <2>3, <2>4, <3>1, <3>2, SoundVec
    <3> QED  BY <2>1, <2>4, <3>3 DEF Emptied, Vec
  <2> QED  BY <2>6, <2>7, AppendedToEmpty
<1> QED  BY <1>6, <1>7, <1>8

(* init by move takes the block of the other vector.                       *)
LEMMA InitMoved ==
  ASSUME NEW v, Sound(v), NEW s \in Seq(Values), NEW cap \in 0 .. MaxBlock, Len(s) <= cap
  PROVE  Takes(initMove(v, Holding(v.kind, s, cap)), v, s)
<1>1. Len(s) \in Nat /\ cap \in Nat /\ v.kind \in KindsUsed
  BY SoundIsVec, BoundsAssumption
<1>2. PICK n : n = cap - Len(s)
  OBVIOUS
<1>3. n \in Nat /\ Len(s) + n = cap
  BY <1>1, <1>2
<1>4. PICK q : q = RawCells(n)
  OBVIOUS
<1>5. q \in [1 .. n -> Cell] /\ \A i \in 1 .. n : q[i] = Raw
  BY <1>4 DEF RawCells, Cell
<1>6. q \in Seq(Cell) /\ Len(q) = n
  BY <1>3, <1>5, Blocks
<1>7. s \in Seq(Cell)
  BY ArrayFits DEF Fitting
<1>8. PICK c : c = s \o q
  OBVIOUS
<1>9. c \in Seq(Cell) /\ Len(c) = cap
      /\ \A i \in 1 .. cap : c[i] = IF i <= Len(s) THEN s[i] ELSE q[i - Len(s)]
  BY <1>3, <1>6, <1>7, <1>8, ConcatProperties
<1>10. c \in [1 .. cap -> Cell] /\ DOMAIN c = 1 .. cap
  BY <1>9, LenProperties
<1>11. \A i \in 1 .. cap : IF i <= Len(s) THEN c[i] = s[i] ELSE c[i] = Raw
  <2>1. \A i \in 1 .. cap : ~(i <= Len(s)) => i - Len(s) \in 1 .. n
    BY <1>1, <1>3
  <2> QED  BY <1>5, <1>9, <2>1
<1>12. PICK w : w = Vec(v.kind, c, Len(s), cap)
  OBVIOUS
<1>13. initMove(v, Holding(v.kind, s, cap)) = Ok(w)
  <2>1. Holding(v.kind, s, cap) = w
    BY <1>2, <1>4, <1>8, <1>12 DEF Holding, Vec
  <2>2. DestroyAndDeallocate(v.kind, Memory(v), v.size) = {}
    BY GivenBack
  <2>3. [w EXCEPT !.faults = {}] = w
    <3>1. PICK kind, size : kind = v.kind /\ size = Len(s)
      OBVIOUS
    <3>2. [Vec(kind, c, size, cap) EXCEPT !.faults = {}] = Vec(kind, c, size, cap)
      BY VecFields
    <3> QED  BY Zenon, <1>12, <3>1, <3>2
  <2> QED  BY <2>1, <2>2, <2>3 DEF initMove
<1>14. Sound(w)
  <2>1. \A i \in 1 .. Len(s) : s[i] \in Values /\ i \in 1 .. cap
    BY <1>1
  <2>2. \A i \in 1 .. cap : i <= Len(s) => i \in 1 .. Len(s)
    BY <1>1
  <2>3. Lives(v.kind, c, Len(s))
    BY <1>10, <1>11, <2>1, <2>2 DEF Lives
  <2>4. Len(s) \in 0 .. cap
    BY <1>1
  <2> QED  BY <1>1, <1>10, <1>12, <2>3, <2>4, SoundVec
<1>15. \A i \in 1 .. Len(s) : c[i] = s[i]
  <2>1. \A i \in 1 .. Len(s) : i \in 1 .. cap /\ i <= Len(s)
    BY <1>1
  <2> QED  BY <1>11, <2>1
<1>16. w.kind = v.kind /\ w.size = Len(s) /\ w.cells = c
  BY <1>12 DEF Vec
<1> QED  BY <1>13, <1>14, <1>15, <1>16 DEF Takes

-----------------------------------------------------------------------------
(* The sequence a vector holds.                                            *)

ItemsOf(v) == SubSeq(v.cells, 1, v.size)

(* The elements of the sequence are those below the size.                  *)
LEMMA ItemsAre ==
  ASSUME NEW v, Sound(v)
  PROVE  /\ ItemsOf(v) \in Seq(Cell) /\ Len(ItemsOf(v)) = v.size /\ v.size \in Nat
         /\ \A i \in 1 .. v.size : ItemsOf(v)[i] = v.cells[i]
<1>1. v.size \in Nat /\ 0 + 1 = 1 /\ v.size \in 0 .. v.size /\ 0 \in 0 .. v.size
  BY SoundIsVec, BoundsAssumption
<1>2. /\ Fitting(v.kind, SubSeq(v.cells, 0 + 1, v.size))
      /\ Len(SubSeq(v.cells, 0 + 1, v.size)) = v.size - 0
      /\ \A i \in 1 .. v.size - 0 : SubSeq(v.cells, 0 + 1, v.size)[i] = v.cells[0 + i]
  BY <1>1, Stretch
<1>3. PICK q : q = ItemsOf(v)
  OBVIOUS
<1>4. q = SubSeq(v.cells, 0 + 1, v.size)
  BY <1>1, <1>3 DEF ItemsOf
<1>5. Fitting(v.kind, q) /\ Len(q) = v.size - 0 /\ \A i \in 1 .. v.size - 0 : q[i] = v.cells[0 + i]
  BY <1>2, <1>4
<1>6. q \in Seq(Cell)
  BY <1>5 DEF Fitting
<1> QED  BY <1>1, <1>3, <1>5, <1>6

(* A vector holds s if it has the elements of s.                           *)
LEMMA ItemsEqual ==
  ASSUME NEW v, Sound(v), NEW s \in Seq(Cell), Len(s) = v.size,
         \A i \in 1 .. Len(s) : v.cells[i] = s[i]
  PROVE  ItemsOf(v) = s
<1>1. ItemsOf(v) \in Seq(Cell) /\ Len(ItemsOf(v)) = Len(s)
      /\ \A i \in 1 .. Len(ItemsOf(v)) : ItemsOf(v)[i] = s[i]
  BY ItemsAre
<1> QED  BY <1>1, SeqEqual

(* A vector with the elements of another holds the same sequence.          *)
LEMMA SameItems ==
  ASSUME NEW v, Sound(v), NEW w, Sound(w), Same(w, v)
  PROVE  ItemsOf(w) = ItemsOf(v)
<1>1. PICK s : s = ItemsOf(v)
  OBVIOUS
<1>2. s \in Seq(Cell) /\ Len(s) = v.size /\ \A i \in 1 .. v.size : s[i] = v.cells[i]
  BY <1>1, ItemsAre
<1>3. Len(s) = w.size /\ \A i \in 1 .. Len(s) : w.cells[i] = s[i]
  BY <1>2 DEF Same
<1> QED  BY <1>1, <1>2, <1>3, ItemsEqual

(* An edit of the vector is one of its sequence.                           *)
LEMMA SplicedItems ==
  ASSUME NEW v, Sound(v), NEW w, Sound(w), NEW at \in 0 .. v.size, NEW from \in at .. v.size,
         NEW p \in Seq(Cell), Splices(w, v, at, p, from)
  PROVE  ItemsOf(w) =
           SubSeq(ItemsOf(v), 1, at) \o p \o SubSeq(ItemsOf(v), from + 1, Len(ItemsOf(v)))
<1>1. PICK s : s = ItemsOf(v)
  OBVIOUS
<1>2. s \in Seq(Cell) /\ Len(s) = v.size /\ v.size \in Nat /\ \A i \in 1 .. v.size : s[i] = v.cells[i]
  BY <1>1, ItemsAre
<1>3. at \in Nat /\ from \in Nat /\ at <= from /\ from <= v.size /\ Len(p) \in Nat
  BY <1>2
<1>4. PICK head : head = SubSeq(s, 1, at)
  OBVIOUS
<1>5. PICK tail : tail = SubSeq(s, from + 1, v.size)
  OBVIOUS
<1>6. head \in Seq(Cell) /\ Len(head) = at /\ \A i \in 1 .. at : head[i] = v.cells[i]
  <2>1. \A i \in 1 .. at : s[i] \in Cell /\ i \in 1 .. v.size
    BY <1>2, <1>3
  <2>2. /\ SubSeq(s, 1, at) \in Seq(Cell)
        /\ Len(SubSeq(s, 1, at)) = IF 1 <= at THEN at - 1 + 1 ELSE 0
        /\ \A i \in 1 .. at - 1 + 1 : SubSeq(s, 1, at)[i] = s[1 + i - 1]
    BY <1>3, <2>1, SubSeqProperties
  <2>3. Len(head) = at
    BY <1>3, <1>4, <2>2
  <2>4. \A i \in 1 .. at : head[i] = s[i]
    BY <1>3, <1>4, <2>2
  <2> QED  BY <1>2, <1>4, <2>1, <2>2, <2>3, <2>4
<1>7. tail \in Seq(Cell) /\ Len(tail) = v.size - from
      /\ \A i \in 1 .. v.size - from : tail[i] = v.cells[from + i]
  <2>1. \A i \in from + 1 .. v.size : s[i] \in Cell
    BY <1>2, <1>3
  <2>2. /\ SubSeq(s, from + 1, v.size) \in Seq(Cell)
        /\ Len(SubSeq(s, from + 1, v.size)) = IF from + 1 <= v.size THEN v.size - (from + 1) + 1 ELSE 0
        /\ \A i \in 1 .. v.size - (from + 1) + 1 :
             SubSeq(s, from + 1, v.size)[i] = s[from + 1 + i - 1]
    BY <1>2, <1>3, <2>1, SubSeqProperties
  <2>3. Len(tail) = v.size - from
    BY <1>2, <1>3, <1>5, <2>2
  <2>4. \A i \in 1 .. v.size - from : tail[i] = s[from + i]
    BY <1>2, <1>3, <1>5, <2>2
  <2>5. \A i \in 1 .. v.size - from : from + i \in 1 .. v.size
    BY <1>2, <1>3
  <2> QED  BY <1>2, <1>5, <2>2, <2>3, <2>4, <2>5
<1>8. PICK front : front = head \o p
  OBVIOUS
<1>9. front \in Seq(Cell) /\ Len(front) = at + Len(p)
      /\ \A i \in 1 .. at + Len(p) : front[i] = IF i <= at THEN head[i] ELSE p[i - at]
  BY <1>6, <1>8, ConcatProperties
<1>10. PICK all : all = front \o tail
  OBVIOUS
<1>11. all \in Seq(Cell) /\ Len(all) = at + Len(p) + (v.size - from)
       /\ \A i \in 1 .. at + Len(p) + (v.size - from) :
            all[i] = IF i <= at + Len(p) THEN front[i] ELSE tail[i - (at + Len(p))]
  <2>1. /\ front \o tail \in Seq(Cell) /\ Len(front \o tail) = Len(front) + Len(tail)
        /\ \A i \in 1 .. Len(front) + Len(tail) :
             (front \o tail)[i] = IF i <= Len(front) THEN front[i] ELSE tail[i - Len(front)]
    BY <1>7, <1>9, ConcatProperties
  <2>2. Len(front) = at + Len(p) /\ Len(tail) = v.size - from
    BY <1>7, <1>9
  <2> QED  BY <1>10, <2>1, <2>2
<1>12. Len(all) = w.size
  BY <1>11 DEF Splices
<1>13. ASSUME NEW i \in 1 .. Len(all)
       PROVE  w.cells[i] = all[i]
  <2>1. w.cells[i] = IF i <= at THEN v.cells[i]
                     ELSE IF i <= at + Len(p) THEN p[i - at]
                     ELSE v.cells[i - at - Len(p) + from]
    BY <1>12 DEF Splices
  <2>2. i \in Nat /\ 1 <= i /\ i <= at + Len(p) + (v.size - from)
    BY <1>2, <1>3, <1>11
  <2>3. CASE i <= at
    <3>1. i \in 1 .. at /\ i \in 1 .. at + Len(p) /\ i <= at + Len(p)
      BY <1>3, <2>2, <2>3
    <3> QED  BY <1>6, <1>9, <1>11, <2>1, <2>3, <3>1
  <2>4. CASE ~(i <= at) /\ i <= at + Len(p)
    <3>1. i \in 1 .. at + Len(p)
      BY <1>3, <2>2, <2>4
    <3> QED  BY <1>9, <1>11, <2>1, <2>4, <3>1
  <2>5. CASE ~(i <= at) /\ ~(i <= at + Len(p))
    <3>1. i - (at + Len(p)) \in 1 .. v.size - from
          /\ from + (i - (at + Len(p))) = i - at - Len(p) + from
      BY <1>2, <1>3, <2>2, <2>5
    <3>2. all[i] = v.cells[from + (i - (at + Len(p)))]
      BY <1>7, <1>11, <2>5, <3>1
    <3> QED  BY <2>1, <2>5, <3>1, <3>2
  <2> QED  BY <2>3, <2>4, <2>5
<1>14. ItemsOf(w) = all
  BY <1>11, <1>12, <1>13, ItemsEqual
<1> QED  BY <1>1, <1>2, <1>4, <1>5, <1>8, <1>10, <1>14

(* What an edit or a failure makes of the sequence.                        *)
Spliced(r, v, at, p, from) ==
  /\ r.status = "NoError" /\ Sound(r.vector)
  /\ r.vector.size = at + Len(p) + (v.size - from)
  /\ ItemsOf(r.vector) =
       SubSeq(ItemsOf(v), 1, at) \o p \o SubSeq(ItemsOf(v), from + 1, Len(ItemsOf(v)))

(* An edit that succeeds splices p into the sequence.                      *)
LEMMA EditedItems ==
  ASSUME NEW v, Sound(v), NEW at \in 0 .. v.size, NEW from \in at .. v.size,
         NEW p \in Seq(Cell), NEW r, Edits(r, v, at, p, from)
  PROVE  Spliced(r, v, at, p, from)
<1>1. PICK w : r = Ok(w) /\ Sound(w) /\ Splices(w, v, at, p, from)
  BY DEF Edits
<1>2. r.status = "NoError" /\ r.vector = w
  BY <1>1 DEF Ok, Result
<1>3. w.size = at + Len(p) + (v.size - from)
  BY <1>1 DEF Splices
<1>4. ItemsOf(w) = SubSeq(ItemsOf(v), 1, at) \o p \o SubSeq(ItemsOf(v), from + 1, Len(ItemsOf(v)))
  BY <1>1, SplicedItems
<1> QED  BY <1>1, <1>2, <1>3, <1>4 DEF Spliced

(* A method that fails leaves the sequence as it was.                      *)
LEMMA FailedItems ==
  ASSUME NEW v, Sound(v), NEW r, Fails(r, v)
  PROVE  /\ r.status # "NoError" /\ Sound(r.vector)
         /\ r.vector.size = v.size /\ ItemsOf(r.vector) = ItemsOf(v)
<1>1. PICK w, e : r = Result(w, e) /\ e # "NoError" /\ Sound(w) /\ Same(w, v)
  BY DEF Fails
<1>2. r.status = e /\ r.vector = w
  BY <1>1 DEF Result
<1>3. w.size = v.size
  BY <1>1 DEF Same
<1> QED  BY <1>1, <1>2, <1>3, SameItems

-----------------------------------------------------------------------------
(* The calls a run leaves out that the code does not survive.              *)

SurvivedCalls ==
  /\ "longer tail" \in Spared
  /\ "copied" \in KindsUsed => {"relocation", "among copied"} \subseteq Spared
  /\ KindsUsed \subseteq {"bytes"} \/ "positioned copy" \in Spared

(* What every call finds and leaves.                                       *)
Settled == Sound(vector) /\ offset \in 0 .. MaxBlock

Items == ItemsOf(vector)

CallTypeOK == call \in [method : Methods, p : Arguments, at : Nat, n : Nat, ok : BOOLEAN]

(* A call that is answered as StoredSequence says.                         *)
Answered ==
  /\ Settled' /\ CallTypeOK'
  /\ call'.ok => Stored!Done(call')
  /\ ~call'.ok => Stored!Refused(call')

(* A call that is answered is a step of StoredSequence.                    *)
LEMMA AnsweredStored ==
  ASSUME Answered
  PROVE  Stored!Next
  BY DEF Answered, CallTypeOK, Stored!Next, Stored!CallRecords

(* The bounds, and the positions that fit in a size_t.                     *)
LEMMA BoundsFacts ==
  /\ MaxSize \in Nat /\ MaxBlock \in Nat /\ SizeMax \in Nat
  /\ MaxSize <= MaxBlock /\ MaxSize + 1 <= SizeMax /\ MaxBlock <= SizeMax
  /\ Positions \subseteq 0 .. SizeMax /\ Positions \subseteq Nat
<1>1. /\ MaxSize \in Nat /\ MaxBlock \in Nat /\ SizeMax \in Nat
      /\ MaxSize <= MaxBlock /\ MaxSize + 1 <= SizeMax /\ MaxBlock <= SizeMax
  BY BoundsAssumption
<1> QED  BY <1>1 DEF Positions

(* The fields a call leaves.                                               *)
LEMMA CallMade ==
  ASSUME NEW method \in Methods, NEW v, NEW o, NEW status, NEW p \in Arguments, NEW at \in Nat,
         NEW n \in Nat, Does(method, Walk(v, o, status), p, at, n)
  PROVE  /\ vector' = v /\ offset' = o
         /\ CallTypeOK'
         /\ call'.method = method /\ call'.p = p /\ call'.at = at /\ call'.n = n
         /\ call'.ok <=> status = "NoError"
<1>1. vector' = v /\ offset' = o
  BY DEF Does, Walk
<1>2. call' = [method |-> method, p |-> p, at |-> at, n |-> n, ok |-> status = "NoError"]
  BY DEF Does, Walk
<1>3. CallTypeOK'
  BY <1>2 DEF CallTypeOK
<1> QED  BY <1>1, <1>2, <1>3

(* The methods that append, from the result of the vector's.               *)
LEMMA PushAnswered ==
  ASSUME Settled, NEW p \in Arguments, NEW r,
         Fails(r, vector) \/ (p \in Seq(Cell) /\ Edits(r, vector, vector.size, p, vector.size)),
         Does("pushBackN", AtEnd(r), p, 0, 0)
  PROVE  Answered
<1>1. Sound(vector) /\ vector.size \in Nat /\ Items \in Seq(Cell) /\ Len(Items) = vector.size
  BY ItemsAre DEF Settled, Items
<1>2. /\ vector' = r.vector /\ offset' = r.vector.size
      /\ CallTypeOK'
      /\ call'.method = "pushBackN" /\ call'.p = p
      /\ call'.ok <=> r.status = "NoError"
  <2>1. "pushBackN" \in Methods /\ 0 \in Nat
    BY DEF Methods
  <2> QED  BY <2>1, CallMade DEF AtEnd
<1>3. ASSUME NEW w, w = r.vector, Sound(w)
      PROVE  Settled' /\ Len(Items') = offset' /\ offset' = w.size /\ Items' = ItemsOf(w)
  <2>1. vector' = w /\ offset' = w.size /\ w.size \in 0 .. MaxBlock
    BY <1>2, <1>3 DEF Sound
  <2>2. Len(ItemsOf(w)) = w.size
    BY <1>3, ItemsAre
  <2>3. Items' = ItemsOf(w)
    BY <2>1 DEF Items
  <2> QED  BY <1>3, <2>1, <2>2, <2>3 DEF Settled
<1>4. CASE Fails(r, vector)
  <2>1. r.status # "NoError" /\ Sound(r.vector) /\ r.vector.size = vector.size
        /\ ItemsOf(r.vector) = Items
    BY <1>1, <1>4, FailedItems DEF Items
  <2>2. Settled' /\ Items' = Items /\ offset' = Len(Items)
    BY <1>1, <1>3, <2>1
  <2>3. Stored!Refused(call')
    BY <1>2, <2>2 DEF Stored!Refused, Stored!Keep, Items, ItemsOf
  <2> QED  BY <1>2, <2>1, <2>2, <2>3 DEF Answered
<1>5. CASE p \in Seq(Cell) /\ Edits(r, vector, vector.size, p, vector.size)
  <2>1. vector.size \in 0 .. vector.size /\ vector.size \in vector.size .. vector.size
    BY <1>1
  <2>2. /\ r.status = "NoError" /\ Sound(r.vector)
        /\ ItemsOf(r.vector) =
             SubSeq(Items, 1, vector.size) \o p \o SubSeq(Items, vector.size + 1, Len(Items))
    <3>1. PICK m : m = vector.size
      OBVIOUS
    <3>2. m \in 0 .. vector.size /\ m \in m .. vector.size /\ Edits(r, vector, m, p, m)
      BY <1>5, <2>1, <3>1
    <3>3. Spliced(r, vector, m, p, m)
      BY <1>1, <1>5, <3>2, EditedItems
    <3> QED  BY <3>1, <3>3 DEF Items, Spliced
  <2>3. SubSeq(Items, 1, vector.size) = Items
    BY <1>1, SubSeqFull
  <2>4. SubSeq(Items, vector.size + 1, Len(Items)) = <<>>
    <3>1. Len(Items) \in Int /\ vector.size + 1 \in Int /\ Len(Items) < vector.size + 1
      BY <1>1
    <3> QED  BY <3>1, SubSeqEmpty
  <2>5. Items \o p \in Seq(Cell) /\ (Items \o p) \o <<>> = Items \o p
    BY <1>1, <1>5, ConcatProperties, ConcatEmptySeq
  <2>6. ItemsOf(r.vector) = Items \o p
    BY <2>2, <2>3, <2>4, <2>5
  <2>7. Settled' /\ Items' = Items \o call'.p /\ offset' = Len(Items')
    BY <1>2, <1>3, <2>2, <2>6
  <2>8. Stored!Done(call')
    BY <1>2, <2>7 DEF Stored!Done, Items, ItemsOf
  <2> QED  BY <1>2, <2>2, <2>7, <2>8 DEF Answered
<1> QED  BY <1>4, <1>5

(* The methods that go to a position: those put p in the place of the      *)
(* elements up to upTo.                                                    *)
Writes(method, p, at, n, upTo) ==
  \/ method = "replace" /\ upTo = at + Len(p)
  \/ method \in {"insert", "insertRange"} /\ upTo = at
  \/ method = "erase" /\ upTo = at + n /\ p = <<>>

(* setValidOffset goes to the position, or to the end.                     *)
LEMMA PositionIs ==
  ASSUME Sound(vector), NEW at \in Nat
  PROVE  /\ ValidOffset(at, vector) = IF at < Len(Items) THEN at ELSE Len(Items)
         /\ ValidOffset(at, vector) \in 0 .. vector.size
         /\ at <= vector.size => ValidOffset(at, vector) = at
<1>1. Len(Items) = vector.size /\ vector.size \in Nat
  BY ItemsAre DEF Items
<1> QED  BY <1>1 DEF ValidOffset

(* A refused method at a position moves the cursor only.                   *)
LEMMA WriteRefused ==
  ASSUME Settled, NEW method \in {"replace", "insert", "erase"}, NEW p \in Arguments, NEW at \in Nat,
         NEW n \in Nat, NEW written, NEW r, Fails(r, vector),
         Does(method, Positioned(vector, r, at, written), p, at, n)
  PROVE  Answered
<1>1. Sound(vector) /\ vector.size \in Nat /\ Items \in Seq(Cell) /\ Len(Items) = vector.size
  BY ItemsAre DEF Settled, Items
<1>2. r.status # "NoError" /\ Sound(r.vector) /\ r.vector.size = vector.size
      /\ ItemsOf(r.vector) = Items
  BY <1>1, FailedItems DEF Items
<1>3. PICK o : o = ValidOffset(at, vector)
  OBVIOUS
<1>4. o \in 0 .. vector.size /\ o = IF at < Len(Items) THEN at ELSE Len(Items)
  BY <1>1, <1>3, PositionIs
<1>5. Does(method, Walk(r.vector, o, r.status), p, at, n)
  <2>1. ~Succeeds(r) /\ o + 0 = o
    BY <1>1, <1>2, <1>4 DEF Succeeds
  <2>2. Positioned(vector, r, at, written) = Walk(r.vector, o + 0, r.status)
    BY <1>3, <2>1 DEF Positioned
  <2> QED  BY <2>1, <2>2
<1>6. /\ vector' = r.vector /\ offset' = o /\ CallTypeOK'
      /\ call'.method = method /\ call'.at = at
      /\ call'.ok <=> r.status = "NoError"
  <2>1. method \in Methods
    BY DEF Methods
  <2> QED  BY <1>5, <2>1, CallMade
<1>7. Items' = Items
  BY <1>2, <1>6 DEF Items
<1>8. Settled'
  <2>1. vector.size \in 0 .. MaxBlock
    BY <1>1 DEF Sound
  <2>2. offset' \in 0 .. MaxBlock
    BY <1>1, <1>4, <1>6, <2>1, BoundsFacts
  <2> QED  BY <1>2, <1>6, <2>2 DEF Settled
<1>9. Stored!Refused(call')
  BY <1>4, <1>6, <1>7 DEF Stored!Refused, Stored!Keep, Stored!Inside, Items, ItemsOf
<1> QED  BY <1>2, <1>6, <1>8, <1>9 DEF Answered

(* The methods that go to a position, from the result of the vector's.     *)
LEMMA WriteAnswered ==
  ASSUME Settled, NEW method, NEW p \in Arguments, NEW at \in Nat, NEW n \in Nat, NEW upTo \in Nat,
         NEW written, NEW r, Writes(method, p, at, n, upTo),
         \/ Fails(r, vector) /\ method # "insertRange"
         \/ /\ p \in Seq(Cell) /\ at <= vector.size /\ at <= upTo /\ written = Len(p)
            /\ Edits(r, vector, at, p, Lesser(upTo, vector.size)),
         Does(method, Positioned(vector, r, at, written), p, at, n)
  PROVE  Answered
<1>1. Sound(vector) /\ vector.size \in Nat /\ Items \in Seq(Cell) /\ Len(Items) = vector.size
  BY ItemsAre DEF Settled, Items
<1>2. /\ vector' = r.vector
      /\ offset' = ValidOffset(at, vector) + (IF Succeeds(r) THEN written ELSE 0)
      /\ CallTypeOK'
      /\ call'.method = method /\ call'.p = p /\ call'.at = at /\ call'.n = n
      /\ call'.ok <=> r.status = "NoError"
  <2>1. method \in Methods
    BY DEF Methods, Writes
  <2>2. PICK o : o = ValidOffset(at, vector) + (IF Succeeds(r) THEN written ELSE 0)
    OBVIOUS
  <2>3. Does(method, Walk(r.vector, o, r.status), p, at, n)
    BY <2>2 DEF Positioned
  <2> QED  BY <2>1, <2>2, <2>3, CallMade
<1>3. CASE Fails(r, vector) /\ method # "insertRange"
  <2>1. method \in {"replace", "insert", "erase"}
    BY <1>3 DEF Writes
  <2> QED  BY <1>3, <2>1, WriteRefused
<1>4. CASE /\ p \in Seq(Cell) /\ at <= vector.size /\ at <= upTo /\ written = Len(p)
           /\ Edits(r, vector, at, p, Lesser(upTo, vector.size))
  <2>1. PICK from : from = Lesser(upTo, vector.size)
    OBVIOUS
  <2>2. at \in 0 .. vector.size /\ from \in at .. vector.size
    BY <1>1, <1>4, <2>1 DEF Lesser
  <2>3. Spliced(r, vector, at, p, from)
    BY <1>1, <1>4, <2>1, <2>2, EditedItems
  <2>4. /\ r.status = "NoError" /\ Sound(r.vector)
        /\ r.vector.size = at + Len(p) + (vector.size - from)
        /\ ItemsOf(r.vector) = SubSeq(Items, 1, at) \o p \o SubSeq(Items, from + 1, Len(Items))
    BY <2>3 DEF Spliced, Items
  <2>5. offset' = at + Len(p)
    <3>1. ValidOffset(at, vector) = at
      BY <1>1, <1>4, PositionIs
    <3>2. Succeeds(r)
      BY <2>4 DEF Succeeds
    <3> QED  BY <1>2, <1>4, <3>1, <3>2
  <2>6. SubSeq(Items, from + 1, Len(Items)) = SubSeq(Items, upTo + 1, Len(Items))
    <3>1. CASE upTo < vector.size
      BY <2>1, <3>1 DEF Lesser
    <3>2. CASE ~(upTo < vector.size)
      <4>1. from = Len(Items)
        BY <1>1, <2>1, <3>2 DEF Lesser
      <4>2. /\ Len(Items) \in Int /\ from + 1 \in Int /\ upTo + 1 \in Int
            /\ Len(Items) < from + 1 /\ Len(Items) < upTo + 1
        BY <1>1, <3>2, <4>1
      <4>3. SubSeq(Items, from + 1, Len(Items)) = <<>>
        BY <4>2, SubSeqEmpty
      <4>4. SubSeq(Items, upTo + 1, Len(Items)) = <<>>
        BY <4>2, SubSeqEmpty
      <4> QED  BY <4>3, <4>4
    <3> QED  BY <3>1, <3>2
  <2>7. Items' = SubSeq(Items, 1, at) \o p \o SubSeq(Items, upTo + 1, Len(Items))
    BY <1>2, <2>4, <2>6 DEF Items
  <2>8. Settled'
    <3>1. r.vector.size \in 0 .. MaxBlock
      BY <2>4 DEF Sound
    <3>2. Len(p) \in Nat
      BY <1>4
    <3>3. PICK size : size = r.vector.size
      OBVIOUS
    <3>4. size = at + Len(p) + (vector.size - from) /\ size <= MaxBlock
      BY <2>4, <3>1, <3>3
    <3>5. offset' \in 0 .. MaxBlock
      BY <1>1, <2>2, <2>5, <3>2, <3>4, BoundsFacts
    <3> QED  BY <1>2, <2>4, <3>5 DEF Settled
  <2>9. Stored!Done(call')
    <3>1. CASE method = "replace" /\ upTo = at + Len(p)
      BY <1>2, <2>5, <2>7, <3>1 DEF Stored!Done, Stored!Before, Stored!From, Items, ItemsOf
    <3>2. CASE method \in {"insert", "insertRange"} /\ upTo = at
      BY <1>2, <2>5, <2>7, <3>2 DEF Stored!Done, Stored!Before, Stored!From, Items, ItemsOf
    <3>3. CASE method = "erase" /\ upTo = at + n /\ p = <<>>
      <4>1. SubSeq(Items, 1, at) \o <<>> = SubSeq(Items, 1, at)
        <5>1. \A i \in 1 .. at : Items[i] \in Cell
          BY <1>1, <1>4
        <5>2. SubSeq(Items, 1, at) \in Seq(Cell)
          BY <1>1, <5>1, SubSeqProperties
        <5> QED  BY <5>2, ConcatEmptySeq
      <4>2. Len(<<>>) = 0
        OBVIOUS
      <4>3. offset' = at
        BY <2>5, <3>3, <4>2
      <4>4. Items' = SubSeq(Items, 1, at) \o SubSeq(Items, upTo + 1, Len(Items))
        BY <2>7, <3>3, <4>1
      <4> QED  BY <1>2, <3>3, <4>3, <4>4 DEF Stored!Done, Stored!Before, Stored!From, Items, ItemsOf
    <3> QED  BY <3>1, <3>2, <3>3 DEF Writes
  <2> QED  BY <1>2, <2>4, <2>8, <2>9 DEF Answered
<1> QED  BY <1>3, <1>4

-----------------------------------------------------------------------------
(* Every call is answered: a lemma for each method.                        *)

(* An array is null, with a length of 1, or a sequence.                    *)
LEMMA ArrayIs ==
  ASSUME NEW p \in Arrays
  PROVE  /\ p \in Arguments
         /\ \/ p = NullArray /\ Length(p) = 1
            \/ p # NullArray /\ p \in Seq(Values) /\ Length(p) = Len(p) /\ Len(p) \in Nat
<1>1. p = NullArray \/ p \in Seq(Values)
  BY BoundsAssumption
<1> QED  BY <1>1 DEF Arguments, Length

(* What fails in the calls that are left.                                  *)
LEMMA Survives ==
  ASSUME SurvivedCalls, Settled
  PROVE  /\ Relocations = {TRUE}
         /\ \A p, fail : fail \in Failing(p) => \/ fail = 0
                                                \/ Constructs(vector.kind) /\ fail \in 0 .. Len(p)
         /\ \A p : FailingInPlace(p) = {0}
         /\ \A right : Moving(right) = {0}
<1>1. vector.kind \in KindsUsed
  BY SoundIsVec DEF Settled
<1>2. Relocations = {TRUE}
  BY <1>1 DEF Relocations, SurvivedCalls
<1>3. \A p, fail : fail \in Failing(p) => \/ fail = 0
                                          \/ Constructs(vector.kind) /\ fail \in 0 .. Len(p)
  BY DEF Failing
<1>4. "positioned copy" \notin Spared => vector.kind = "bytes"
  BY <1>1 DEF SurvivedCalls
<1>5. \A p : FailingInPlace(p) = {0}
  BY <1>4 DEF FailingInPlace, Failing, Constructs
<1>6. \A right : Moving(right) = {0}
  BY <1>4 DEF Moving
<1> QED  BY <1>2, <1>3, <1>5, <1>6

LEMMA PushBackAnswered ==
  ASSUME SurvivedCalls, Settled, NEW x \in Values, PushBack(x)
  PROVE  Answered
<1>1. PICK grow \in GrantsAfter(1), relocates \in Relocations, fail \in Failing(<<x>>) :
        Does("pushBackN", AtEnd(pushBack(vector, x, grow, relocates, fail)), <<x>>, 0, 0)
  BY DEF PushBack
<1>2. relocates = TRUE
  BY <1>1, Survives
<1>3. fail \in 0 .. 1 /\ (fail # 0 => Constructs(vector.kind))
  <2>1. Len(<<x>>) = 1
    OBVIOUS
  <2>2. fail = 0 \/ (Constructs(vector.kind) /\ fail \in 0 .. Len(<<x>>))
    BY <1>1, Survives
  <2> QED  BY <2>1, <2>2
<1>4. Sound(vector)
  BY DEF Settled
<1>5. PICK r : r = pushBack(vector, x, grow, TRUE, fail)
  OBVIOUS
<1>6. PICK s : s = <<x>>
  OBVIOUS
<1>7. Fails(r, vector) \/ Edits(r, vector, vector.size, s, vector.size)
  BY <1>3, <1>4, <1>5, <1>6, PushedBack
<1>8. s \in Arguments /\ s \in Seq(Cell)
  <2>1. s \in Seq(Values)
    BY <1>6
  <2>2. s \in Seq(Cell)
    BY <2>1, ArrayFits DEF Fitting
  <2> QED  BY <1>6, <2>2 DEF Arguments
<1>9. Does("pushBackN", AtEnd(r), s, 0, 0)
  BY <1>1, <1>2, <1>5, <1>6
<1> QED  BY <1>7, <1>8, <1>9, PushAnswered

LEMMA PushBackNAnswered ==
  ASSUME SurvivedCalls, Settled, NEW p \in Arrays, PushBackN(p)
  PROVE  Answered
<1>1. PICK grow \in GrantsAfter(Length(p)), relocates \in Relocations, fail \in Failing(p) :
        Does("pushBackN", AtEnd(pushBackN(vector, p, Length(p), grow, relocates, fail)), p, 0, 0)
  BY DEF PushBackN
<1>2. relocates = TRUE
  BY <1>1, Survives
<1>3. fail = 0 \/ (Constructs(vector.kind) /\ fail \in 0 .. Len(p))
  BY <1>1, Survives
<1>4. Sound(vector) /\ vector.size \in Nat
  BY SoundIsVec, BoundsAssumption DEF Settled
<1>5. PICK r : r = pushBackN(vector, p, Length(p), grow, TRUE, fail)
  OBVIOUS
<1>6. Does("pushBackN", AtEnd(r), p, 0, 0) /\ p \in Arguments
  BY <1>1, <1>2, <1>5, ArrayIs
<1>7. CASE p = NullArray /\ Length(p) = 1
  <2>1. Fails(r, vector)
    BY <1>4, <1>5, <1>7, NullRefused
  <2> QED  BY <1>6, <2>1, PushAnswered
<1>8. CASE p # NullArray /\ p \in Seq(Values) /\ Length(p) = Len(p) /\ Len(p) \in Nat
  <2>1. Len(p) <= SizeMax
    <3>1. vector.size + Len(p) <= MaxSize
      BY <1>8 DEF PushBackN, Fits
    <3> QED  BY <1>4, <1>8, <3>1, BoundsFacts
  <2>2. fail \in 0 .. Len(p) /\ (fail # 0 => Constructs(vector.kind))
    BY <1>3, <1>8
  <2>3. Fails(r, vector) \/ Edits(r, vector, vector.size, p, vector.size)
    BY <1>4, <1>5, <1>8, <2>1, <2>2, PushedBackN
  <2>4. p \in Seq(Cell)
    BY <1>8, ArrayFits DEF Fitting
  <2> QED  BY <1>6, <2>3, <2>4, PushAnswered
<1> QED  BY <1>7, <1>8, ArrayIs

LEMMA PushBackArithmeticValueAnswered ==
  ASSUME SurvivedCalls, Settled, NEW s \in Ranges, PushBackArithmeticValue(s)
  PROVE  Answered
<1>1. PICK grow \in GrantsAfter(Len(s)) :
        Does("pushBackN", AtEnd(pushBackN(vector, s, Len(s), grow, TRUE, 0)), s, 0, 0)
  BY DEF PushBackArithmeticValue
<1>2. s \in Seq(Values) /\ Len(s) \in Nat /\ s \in Arguments
  BY ArrayIs DEF Ranges
<1>3. Sound(vector) /\ vector.size \in Nat
  BY SoundIsVec, BoundsAssumption DEF Settled
<1>4. Len(s) <= SizeMax
  <2>1. vector.size + Len(s) <= MaxSize
    BY DEF PushBackArithmeticValue, Fits
  <2> QED  BY <1>2, <1>3, <2>1, BoundsFacts
<1>5. PICK r : r = pushBackN(vector, s, Len(s), grow, TRUE, 0)
  OBVIOUS
<1>6. 0 \in 0 .. Len(s)
  BY <1>2
<1>7. Fails(r, vector) \/ Edits(r, vector, vector.size, s, vector.size)
  BY <1>2, <1>3, <1>4, <1>5, <1>6, PushedBackN
<1>8. s \in Seq(Cell)
  BY <1>2, ArrayFits DEF Fitting
<1> QED  BY <1>1, <1>2, <1>5, <1>7, <1>8, PushAnswered

(* The elements stay when room is made for more, or refused.               *)
LEMMA RoomItems ==
  ASSUME NEW v, Sound(v), NEW r, NEW n, Fails(r, v) \/ MakesRoom(r, v, n)
  PROVE  Sound(r.vector) /\ ItemsOf(r.vector) = ItemsOf(v)
<1>1. CASE Fails(r, v)
  BY <1>1, FailedItems
<1>2. CASE MakesRoom(r, v, n)
  <2>1. PICK w : r = Ok(w) /\ Sound(w) /\ Same(w, v) /\ n <= w.cap
    BY <1>2 DEF MakesRoom
  <2>2. r.vector = w
    BY <2>1 DEF Ok, Result
  <2> QED  BY <2>1, <2>2, SameItems
<1> QED  BY <1>1, <1>2

(* The methods that change nothing a caller sees but the cursor.           *)
LEMMA ItemsStay ==
  ASSUME Settled, NEW v, Sound(v), ItemsOf(v) = Items, NEW method \in Methods, NEW o \in 0 .. MaxBlock,
         NEW status, NEW at \in Nat, NEW n \in Nat, Does(method, Walk(v, o, status), <<>>, at, n),
         \/ method = "reserve" /\ o = offset
         \/ /\ method = "read" /\ status = "NoError" /\ offset <= Len(Items)
            /\ o = Lesser(offset + n, Len(Items))
         \/ /\ method = "readArithmeticValue" /\ status = "NoError"
            /\ o = offset + n /\ o <= Len(Items)
         \/ method \in {"read", "readArithmeticValue"} /\ status # "NoError" /\ o = offset
         \/ method = "seek" /\ status = "NoError" /\ o = at /\ at <= Len(Items)
         \/ method = "seek" /\ status # "NoError" /\ o = Lesser(at, Len(Items))
  PROVE  Answered
<1>1. <<>> \in Arguments
  BY DEF Arguments
<1>2. /\ vector' = v /\ offset' = o /\ CallTypeOK'
      /\ call'.method = method /\ call'.at = at /\ call'.n = n
      /\ call'.ok <=> status = "NoError"
  BY <1>1, CallMade
<1>3. Items' = Items /\ Settled'
  BY <1>2 DEF Items, Settled
<1>4. ASSUME status = "NoError"
      PROVE  Stored!Done(call')
  BY <1>2, <1>3, <1>4 DEF Stored!Done, Stored!Keep, Stored!Inside, Lesser, Items, ItemsOf
<1>5. ASSUME status # "NoError"
      PROVE  Stored!Refused(call')
  BY <1>2, <1>3, <1>5 DEF Stored!Refused, Stored!Keep, Stored!Inside, Lesser, Items, ItemsOf
<1> QED  BY <1>2, <1>3, <1>4, <1>5 DEF Answered

LEMMA ReserveAnswered ==
  ASSUME SurvivedCalls, Settled, NEW n \in Nat, Reserve(n)
  PROVE  Answered
<1>1. PICK grow \in Grants(n) \ {2}, relocates \in Relocations :
        LET r == reserveInternal(vector, n, grow, relocates)
        IN  Does("reserve", Walk(r.vector, offset, r.status), <<>>, 0, n)
  BY DEF Reserve
<1>2. relocates = TRUE
  BY <1>1, Survives
<1>3. PICK r : r = reserveInternal(vector, n, grow, TRUE)
  OBVIOUS
<1>4. Sound(r.vector) /\ ItemsOf(r.vector) = Items
  BY <1>3, Reserved, RoomItems DEF Settled, Items
<1>5. Does("reserve", Walk(r.vector, offset, r.status), <<>>, 0, n)
  BY <1>1, <1>2, <1>3
<1>6. offset \in 0 .. MaxBlock /\ "reserve" \in Methods /\ 0 \in Nat
  BY DEF Settled, Methods
<1> QED  BY <1>4, <1>5, <1>6, ItemsStay

LEMMA ReserveFromCurrentOffsetAnswered ==
  ASSUME SurvivedCalls, Settled, NEW n \in 0 .. SizeMax, ReserveFromCurrentOffset(n)
  PROVE  Answered
<1>1. PICK grow \in Grants(Plus(offset, n)) \ {2}, relocates \in Relocations :
        Does("reserve", reserveFromCurrentOffset(vector, offset, n, grow, relocates), <<>>, 0, n)
  BY DEF ReserveFromCurrentOffset
<1>2. relocates = TRUE
  BY <1>1, Survives
<1>3. PICK m : m = Plus(offset, n)
  OBVIOUS
<1>4. offset \in 0 .. MaxBlock /\ "reserve" \in Methods /\ 0 \in Nat /\ n \in Nat /\ Sound(vector)
  BY DEF Settled, Methods
<1>5. m \in Nat
  <2>1. offset \in 0 .. SizeMax
    BY <1>4, BoundsFacts
  <2>2. m = IF offset + n <= SizeMax THEN offset + n ELSE offset + n - SizeMax - 1
    BY <1>3, <2>1, PlusIs
  <2> QED  BY <2>1, <2>2, BoundsFacts
<1>6. CASE m < offset
  <2>1. Does("reserve", Walk(vector, offset, "ErrorOverflow"), <<>>, 0, n)
    BY <1>1, <1>3, <1>6 DEF reserveFromCurrentOffset
  <2> QED  BY <1>4, <2>1, ItemsStay DEF Items
<1>7. CASE ~(m < offset)
  <2>1. PICK r : r = reserveInternal(vector, m, grow, TRUE)
    OBVIOUS
  <2>2. Sound(r.vector) /\ ItemsOf(r.vector) = Items
    BY <1>4, <1>5, <2>1, Reserved, RoomItems DEF Items
  <2>3. Does("reserve", Walk(r.vector, offset, r.status), <<>>, 0, n)
    BY <1>1, <1>2, <1>3, <1>7, <2>1 DEF reserveFromCurrentOffset
  <2> QED  BY <1>4, <2>2, <2>3, ItemsStay
<1> QED  BY <1>6, <1>7

LEMMA SetSizeAnswered ==
  ASSUME SurvivedCalls, Settled, NEW n \in Nat, SetSize(n)
  PROVE  Answered
<1>1. PICK grow \in Grants(n) : Does("setSize", AtEnd(setSize(vector, n, grow)), <<>>, 0, n)
  BY DEF SetSize
<1>2. PICK r : r = setSize(vector, n, grow)
  OBVIOUS
<1>3. Sound(vector) /\ vector.size \in Nat /\ Items \in Seq(Cell) /\ Len(Items) = vector.size
      /\ \A i \in 1 .. vector.size : Items[i] = vector.cells[i]
  BY ItemsAre DEF Settled, Items
<1>4. ~Constructs(vector.kind)
  BY DEF SetSize, Constructs
<1>5. Fails(r, vector) \/ Resizes(r, vector, n)
  BY <1>2, <1>3, <1>4, SizeSet
<1>6. /\ vector' = r.vector /\ offset' = r.vector.size /\ CallTypeOK'
      /\ call'.method = "setSize" /\ call'.n = n
      /\ call'.ok <=> r.status = "NoError"
  <2>1. "setSize" \in Methods /\ 0 \in Nat /\ <<>> \in Arguments
    BY DEF Methods, Arguments
  <2> QED  BY <1>1, <1>2, <2>1, CallMade DEF AtEnd
<1>7. CASE Fails(r, vector)
  <2>1. r.status # "NoError" /\ Sound(r.vector) /\ r.vector.size = vector.size
        /\ ItemsOf(r.vector) = Items
    BY <1>3, <1>7, FailedItems DEF Items
  <2>2. Items' = Items /\ offset' = Len(Items)
    BY <1>3, <1>6, <2>1 DEF Items
  <2>3. Settled'
    BY <1>6, <2>1 DEF Settled, Sound
  <2>4. Stored!Refused(call')
    BY <1>6, <2>2 DEF Stored!Refused, Stored!Keep, Items, ItemsOf
  <2> QED  BY <1>6, <2>1, <2>3, <2>4 DEF Answered
<1>8. CASE Resizes(r, vector, n)
  <2>1. PICK w : /\ r = Ok(w) /\ Sound(w) /\ w.kind = vector.kind /\ w.size = n
                 /\ \A i \in 1 .. n : i <= vector.size => w.cells[i] = vector.cells[i]
    BY <1>8 DEF Resizes
  <2>2. r.vector = w /\ r.status = "NoError"
    BY <2>1 DEF Ok, Result
  <2>3. Items' = ItemsOf(w) /\ offset' = n /\ Settled'
    BY <1>6, <2>1, <2>2 DEF Items, Settled, Sound
  <2>4. Len(Items') = n /\ \A i \in 1 .. n : Items'[i] = w.cells[i]
    BY <2>1, <2>3, ItemsAre
  <2>5. PICK m : m = IF n < Len(Items) THEN n ELSE Len(Items)
    OBVIOUS
  <2>6. \A i \in 1 .. m : i \in 1 .. n /\ i <= vector.size /\ i \in 1 .. vector.size
    BY <1>3, <2>5
  <2>7. \A i \in 1 .. m : Items'[i] = Items[i]
    BY <1>3, <2>1, <2>4, <2>6
  <2>8. Stored!Inside(n) = m
    BY <2>5 DEF Stored!Inside, Items, ItemsOf
  <2>9. Stored!Done(call')
    BY <1>6, <2>3, <2>4, <2>7, <2>8 DEF Stored!Done, Items, ItemsOf
  <2> QED  BY <1>6, <2>2, <2>3, <2>9 DEF Answered
<1> QED  BY <1>5, <1>7, <1>8

LEMMA ReplaceAnswered ==
  ASSUME SurvivedCalls, Settled, NEW p \in Arrays, NEW at \in Nat, Replace(p, at)
  PROVE  Answered
<1>1. PICK grow \in Grants(at + Length(p)), fail \in FailingInPlace(p) :
        Does("replace",
             Positioned(vector, replace(vector, p, Length(p), at, grow, fail), at, Length(p)),
             p, at, 0)
  BY DEF Replace
<1>2. PICK len : len = Length(p)
  OBVIOUS
<1>3. fail = 0
  BY <1>1, Survives
<1>4. PICK r : r = replace(vector, p, len, at, grow, 0)
  OBVIOUS
<1>5. Does("replace", Positioned(vector, r, at, len), p, at, 0)
  BY <1>1, <1>2, <1>3, <1>4
<1>6. Sound(vector) /\ vector.size \in Nat /\ p \in Arguments
  BY SoundIsVec, BoundsAssumption, ArrayIs DEF Settled
<1>7. CASE p = NullArray /\ len = 1
  <2>1. Fails(r, vector)
    BY <1>4, <1>6, <1>7, NullRefused
  <2> QED  BY <1>5, <1>6, <2>1, WriteRefused
<1>8. CASE p # NullArray /\ p \in Seq(Values) /\ len = Len(p) /\ Len(p) \in Nat
  <2>1. \/ Fails(r, vector)
        \/ at <= vector.size /\ Edits(r, vector, at, p, Lesser(at + len, vector.size))
    BY <1>4, <1>6, <1>8, ReplacedBy
  <2>2. p \in Seq(Cell)
    BY <1>8, ArrayFits DEF Fitting
  <2>3. PICK upTo : upTo = at + len
    OBVIOUS
  <2>4. upTo \in Nat /\ at <= upTo /\ Writes("replace", p, at, 0, upTo)
    BY <1>8, <2>3 DEF Writes
  <2> QED  BY <1>5, <1>6, <1>8, <2>1, <2>2, <2>3, <2>4, WriteAnswered
<1> QED  BY <1>2, <1>7, <1>8, ArrayIs

(* insert goes past what the vector has grown by.                          *)
LEMMA Grown ==
  ASSUME Sound(vector), NEW p \in Seq(Cell), NEW at \in 0 .. vector.size, NEW r,
         Edits(r, vector, at, p, at)
  PROVE  r.vector.size - vector.size = Len(p)
<1>1. vector.size \in Nat /\ Len(p) \in Nat
  BY SoundIsVec, BoundsAssumption
<1>2. at \in Nat /\ at \in at .. vector.size
  BY <1>1
<1>3. r.vector.size = at + Len(p) + (vector.size - at)
  BY <1>2, EditedItems DEF Spliced
<1> QED  BY <1>1, <1>2, <1>3

LEMMA InsertAnswered ==
  ASSUME SurvivedCalls, Settled, NEW p \in Arrays, NEW at \in Nat, Insert(p, at)
  PROVE  Answered
<1>1. PICK grow \in GrantsAfter(Length(p)), fail \in FailingInPlace(p) :
        Does("insert",
             Inserted(vector, insert(vector, p, Length(p), at, grow, 0, fail), at),
             p, at, 0)
  BY DEF Insert
<1>2. PICK len : len = Length(p)
  OBVIOUS
<1>3. fail = 0
  BY <1>1, Survives
<1>4. PICK r : r = insert(vector, p, len, at, grow, 0, 0)
  OBVIOUS
<1>5. PICK written : written = r.vector.size - vector.size
  OBVIOUS
<1>6. Does("insert", Positioned(vector, r, at, written), p, at, 0)
  BY <1>1, <1>2, <1>3, <1>4, <1>5 DEF Inserted
<1>7. Sound(vector) /\ vector.size \in Nat /\ vector.kind \in KindsUsed /\ p \in Arguments
  BY SoundIsVec, BoundsAssumption, ArrayIs DEF Settled
<1>8. CASE p = NullArray /\ len = 1
  <2>1. Fails(r, vector)
    BY <1>4, <1>7, <1>8, NullRefused
  <2> QED  BY <1>6, <1>7, <2>1, WriteRefused
<1>9. CASE p # NullArray /\ p \in Seq(Values) /\ len = Len(p) /\ Len(p) \in Nat
  <2>1. Len(p) <= MaxSize
    <3>1. vector.size + len <= MaxSize
      BY <1>2 DEF Insert, Fits
    <3> QED  BY <1>7, <1>9, <3>1, BoundsFacts
  <2>2. ~(/\ vector.kind = "copied" /\ at < vector.size /\ p # <<>>
          /\ vector.size + Len(p) <= vector.cap)
    <3>1. vector.kind = "copied" => ~AmongCopied(p, at)
      BY <1>7 DEF Insert, SurvivedCalls
    <3> QED  BY <1>9, <3>1 DEF AmongCopied
  <2>3. \/ Fails(r, vector)
        \/ at <= vector.size /\ Edits(r, vector, at, p, at)
    BY <1>4, <1>7, <1>9, <2>1, <2>2, InsertedAt
  <2>4. p \in Seq(Cell)
    BY <1>9, ArrayFits DEF Fitting
  <2>5. CASE Fails(r, vector)
    BY <1>6, <1>7, <2>5, WriteRefused
  <2>6. CASE at <= vector.size /\ Edits(r, vector, at, p, at)
    <3>1. written = Len(p)
      BY <1>5, <1>7, <2>4, <2>6, Grown
    <3>2. Lesser(at, vector.size) = at
      BY <1>7, <2>6 DEF Lesser
    <3>3. Writes("insert", p, at, 0, at)
      BY DEF Writes
    <3> QED  BY <1>6, <1>7, <2>4, <2>6, <3>1, <3>2, <3>3, WriteAnswered
  <2> QED  BY <2>3, <2>5, <2>6
<1> QED  BY <1>2, <1>8, <1>9, ArrayIs

(* Both erase methods, from the result of the vector's.                    *)
LEMMA TakenOut ==
  ASSUME Settled, NEW at \in Nat, NEW n \in Nat, NEW r,
         \/ Fails(r, vector)
         \/ at <= vector.size /\ Edits(r, vector, at, <<>>, Lesser(at + n, vector.size)),
         Does("erase", Positioned(vector, r, at, 0), <<>>, at, n)
  PROVE  Answered
<1>1. PICK p : p = <<>>
  OBVIOUS
<1>2. p \in Arguments /\ p \in Seq(Cell) /\ 0 = Len(p)
  BY <1>1 DEF Arguments
<1>3. CASE Fails(r, vector)
  BY <1>1, <1>2, <1>3, WriteRefused
<1>4. CASE at <= vector.size /\ Edits(r, vector, at, <<>>, Lesser(at + n, vector.size))
  <2>1. PICK upTo : upTo = at + n
    OBVIOUS
  <2>2. upTo \in Nat /\ at <= upTo /\ Writes("erase", p, at, n, upTo)
    BY <1>1, <2>1 DEF Writes
  <2>3. Edits(r, vector, at, p, Lesser(upTo, vector.size))
    BY <1>1, <1>4, <2>1
  <2>4. Does("erase", Positioned(vector, r, at, 0), p, at, n)
    BY <1>1
  <2> QED  BY <1>2, <1>4, <2>2, <2>3, <2>4, WriteAnswered
<1> QED  BY <1>3, <1>4

LEMMA EraseAnswered ==
  ASSUME SurvivedCalls, Settled, NEW at \in 0 .. SizeMax, NEW n \in 0 .. SizeMax, Erase(at, n)
  PROVE  Answered
<1>1. PICK moving \in Moving(vector.size - at - n) :
        Does("erase", Positioned(vector, erase(vector, at, n, moving), at, 0), <<>>, at, n)
  BY DEF Erase
<1>2. moving = 0
  BY <1>1, Survives
<1>3. PICK r : r = erase(vector, at, n, 0)
  OBVIOUS
<1>4. ~LongerTailOf(vector, at, n)
  BY DEF Erase, SurvivedCalls, LongerTail, LongerTailOf
<1>5. \/ Fails(r, vector)
      \/ at <= vector.size /\ Edits(r, vector, at, <<>>, Lesser(at + n, vector.size))
  BY <1>3, <1>4, ErasedAt DEF Settled
<1>6. at \in Nat /\ n \in Nat
  OBVIOUS
<1> QED  BY <1>1, <1>2, <1>3, <1>5, <1>6, TakenOut

LEMMA EraseRangeAnswered ==
  ASSUME SurvivedCalls, Settled, NEW begin \in Nat, NEW end \in Nat, EraseRange(begin, end)
  PROVE  Answered
<1>1. PICK n : n = IF begin < end THEN end - begin ELSE 0
  OBVIOUS
<1>2. n \in Nat
  BY <1>1
<1>3. "longer tail" \in Spared => ~LongerTail(begin, n)
  BY <1>1 DEF EraseRange
<1>4. PICK moving \in Moving(vector.size - end) :
        Does("erase", Positioned(vector, eraseRange(vector, begin, end, moving), begin, 0),
             <<>>, begin, n)
  BY <1>1 DEF EraseRange
<1>5. moving = 0
  BY <1>4, Survives
<1>6. PICK r : r = eraseRange(vector, begin, end, 0)
  OBVIOUS
<1>7. ~LongerTailOf(vector, begin, n)
  BY <1>3 DEF SurvivedCalls, LongerTail, LongerTailOf
<1>8. \/ Fails(r, vector)
      \/ begin <= vector.size /\ Edits(r, vector, begin, <<>>, Lesser(begin + n, vector.size))
  BY <1>1, <1>2, <1>6, <1>7, ErasedBetween DEF Settled
<1> QED  BY <1>2, <1>4, <1>5, <1>6, <1>8, TakenOut

LEMMA ReadAnswered ==
  ASSUME Settled, NEW n \in Positions, NEW null, Read(n, null)
  PROVE  Answered
<1>1. PICK fail \in (IF Constructs(vector.kind) THEN BOOLEAN ELSE {FALSE}) :
        Does("read", readN(vector, offset, n, null, fail), <<>>, 0, n)
  BY DEF Read
<1>2. PICK r : r = copyN(vector, offset, n, null, fail)
  OBVIOUS
<1>3. PICK o : o = offset + (IF Succeeds(r) THEN CopyLength(vector, offset, n) ELSE 0)
  OBVIOUS
<1>4. Does("read", Walk(r.vector, o, r.status), <<>>, 0, n)
  BY <1>1, <1>2, <1>3 DEF readN
<1>5. /\ Sound(vector) /\ vector.size \in Nat /\ Len(Items) = vector.size
      /\ vector.size \in 0 .. MaxBlock /\ offset \in 0 .. MaxBlock
  BY ItemsAre DEF Settled, Items, Sound
<1>6. n \in 0 .. MaxSize + 1 /\ n \in Nat /\ 0 \in Nat /\ "read" \in Methods
  BY BoundsFacts DEF Positions, Methods
<1>7. /\ r.vector = vector
      /\ Succeeds(r) => /\ offset <= vector.size
                        /\ offset + CopyLength(vector, offset, n) = Lesser(offset + n, vector.size)
  BY <1>2, <1>5, <1>6, CopiedN
<1>8. Sound(r.vector) /\ ItemsOf(r.vector) = Items
  BY <1>5, <1>7 DEF Items
<1>9. CASE Succeeds(r)
  <2>1. r.status = "NoError" /\ offset <= Len(Items) /\ o = Lesser(offset + n, Len(Items))
    BY <1>3, <1>5, <1>7, <1>9 DEF Succeeds
  <2>2. o \in 0 .. MaxBlock
    BY <1>5, <1>6, <2>1, BoundsFacts DEF Lesser
  <2> QED  BY <1>4, <1>6, <1>8, <2>1, <2>2, ItemsStay
<1>10. CASE ~Succeeds(r)
  <2>1. r.status # "NoError" /\ o = offset
    BY <1>3, <1>5, <1>10 DEF Succeeds
  <2> QED  BY <1>4, <1>5, <1>6, <1>8, <2>1, ItemsStay
<1> QED  BY <1>9, <1>10

LEMMA ReadArithmeticValueAnswered ==
  ASSUME Settled, NEW n \in Nat, ReadArithmeticValue(n)
  PROVE  Answered
<1>1. Does("readArithmeticValue", readArithmeticValue(vector, offset, n), <<>>, 0, n)
  BY DEF ReadArithmeticValue
<1>2. /\ Sound(vector) /\ vector.size \in Nat /\ Len(Items) = vector.size
      /\ vector.size \in 0 .. MaxBlock /\ offset \in 0 .. MaxBlock
      /\ ItemsOf(vector) = Items
  BY ItemsAre DEF Settled, Items, Sound
<1>3. "readArithmeticValue" \in Methods /\ 0 \in Nat
  BY DEF Methods
<1>4. CASE n + offset <= vector.size
  <2>1. PICK o : o = offset + n
    OBVIOUS
  <2>2. Does("readArithmeticValue", Walk(vector, o, "NoError"), <<>>, 0, n)
    BY <1>1, <1>4, <2>1 DEF readArithmeticValue
  <2>3. o \in 0 .. MaxBlock /\ o <= Len(Items)
    BY <1>2, <1>4, <2>1, BoundsFacts
  <2> QED  BY <1>2, <1>3, <2>1, <2>2, <2>3, ItemsStay
<1>5. CASE ~(n + offset <= vector.size)
  <2>1. Does("readArithmeticValue", Walk(vector, offset, "ErrorOverflow"), <<>>, 0, n)
    BY <1>1, <1>5 DEF readArithmeticValue
  <2> QED  BY <1>2, <1>3, <2>1, ItemsStay
<1> QED  BY <1>4, <1>5

LEMMA SeekAnswered ==
  ASSUME Settled, NEW at \in Nat, Seek(at)
  PROVE  Answered
<1>1. Does("seek", seek(vector, at), <<>>, at, 0)
  BY DEF Seek
<1>2. /\ Sound(vector) /\ vector.size \in Nat /\ Len(Items) = vector.size
      /\ vector.size \in 0 .. MaxBlock /\ ItemsOf(vector) = Items
  BY ItemsAre DEF Settled, Items, Sound
<1>3. "seek" \in Methods /\ 0 \in Nat
  BY DEF Methods
<1>4. PICK o : o = ValidOffset(at, vector)
  OBVIOUS
<1>5. /\ o \in 0 .. vector.size /\ o = IF at < Len(Items) THEN at ELSE Len(Items)
      /\ at <= vector.size => o = at
  BY <1>2, <1>4, PositionIs
<1>6. o \in 0 .. MaxBlock
  BY <1>2, <1>5, BoundsFacts
<1>7. CASE at <= vector.size
  <2>1. Does("seek", Walk(vector, o, "NoError"), <<>>, at, 0)
    BY <1>1, <1>4, <1>7 DEF seek
  <2> QED  BY <1>2, <1>3, <1>5, <1>6, <1>7, <2>1, ItemsStay
<1>8. CASE ~(at <= vector.size)
  <2>1. Does("seek", Walk(vector, o, "ErrorOverflow"), <<>>, at, 0)
    BY <1>1, <1>4, <1>8 DEF seek
  <2>2. o = Lesser(at, Len(Items))
    BY <1>5 DEF Lesser
  <2> QED  BY <1>2, <1>3, <1>6, <2>1, <2>2, ItemsStay
<1> QED  BY <1>7, <1>8

(* The init methods, from what becomes of the vector.                      *)
LEMMA InitAnswered ==
  ASSUME Settled, NEW s \in Seq(Values), s \in Arguments, NEW at \in 0 .. Len(s), NEW r,
         Takes(r, vector, s) \/ Loses(r, vector), InitWith(r, s, at)
  PROVE  Answered
<1>1. Len(s) \in Nat /\ at \in Nat /\ s \in Seq(Cell)
  BY ArrayFits DEF Fitting
<1>2. PICK o : o = IF Succeeds(r) THEN at ELSE offset
  OBVIOUS
<1>3. /\ vector' = r.vector /\ offset' = o /\ CallTypeOK'
      /\ call'.method = "init" /\ call'.p = s /\ call'.at = at
      /\ call'.ok <=> r.status = "NoError"
  <2>1. "init" \in Methods /\ 0 \in Nat
    BY DEF Methods
  <2>2. Does("init", Walk(r.vector, o, r.status), s, at, 0)
    BY <1>2 DEF InitWith, Initialised
  <2> QED  BY <1>1, <2>1, <2>2, CallMade
<1>4. CASE Takes(r, vector, s)
  <2>1. PICK w : /\ r = Ok(w) /\ Sound(w) /\ w.size = Len(s)
                 /\ \A i \in 1 .. Len(s) : w.cells[i] = s[i]
    BY <1>4 DEF Takes
  <2>2. r.vector = w /\ r.status = "NoError"
    BY <2>1 DEF Ok, Result
  <2>3. Items' = s
    BY <1>1, <1>3, <2>1, <2>2, ItemsEqual DEF Items
  <2>4. offset' = at
    BY <1>2, <1>3, <2>2 DEF Succeeds
  <2>5. w.size \in 0 .. MaxBlock
    BY <2>1 DEF Sound
  <2>6. at \in 0 .. MaxBlock
    BY <1>1, <2>1, <2>5, BoundsFacts
  <2>7. Settled'
    BY <1>3, <2>1, <2>2, <2>4, <2>6 DEF Settled
  <2>8. Stored!Done(call')
    BY <1>3, <2>3, <2>4 DEF Stored!Done, Items, ItemsOf
  <2> QED  BY <1>3, <2>2, <2>7, <2>8 DEF Answered
<1>5. CASE Loses(r, vector)
  <2>1. PICK w, e : r = Result(w, e) /\ e # "NoError" /\ Emptied(w, vector)
    BY <1>5 DEF Loses
  <2>2. r.vector = w /\ r.status # "NoError" /\ ~Succeeds(r)
    BY <2>1 DEF Result, Succeeds
  <2>3. Sound(w) /\ w.size = 0
    BY <2>1 DEF Emptied
  <2>4. Items' = <<>>
    BY <1>3, <2>2, <2>3 DEF Items, ItemsOf
  <2>5. offset' = offset
    BY <1>2, <1>3, <2>2
  <2>6. Settled'
    BY <1>3, <2>2, <2>3, <2>5 DEF Settled
  <2>7. Stored!Refused(call')
    BY <1>3, <2>4, <2>5 DEF Stored!Refused, Items, ItemsOf
  <2> QED  BY <1>3, <2>2, <2>6, <2>7 DEF Answered
<1> QED  BY <1>4, <1>5

(* Both methods that copy take the elements of s, or lose their own.       *)
LEMMA CopyTaken ==
  ASSUME SurvivedCalls, Settled, NEW s \in Ranges, NEW grow, NEW fail \in Failing(s)
  PROVE  LET r == initCopy(vector, s, grow, fail)
         IN  Takes(r, vector, s) \/ Loses(r, vector)
<1>1. s \in Seq(Values) /\ Len(s) \in Nat
  BY ArrayIs DEF Ranges
<1>2. fail \in 0 .. Len(s) /\ (fail # 0 => Constructs(vector.kind))
  BY <1>1, Survives
<1> QED  BY <1>1, <1>2, InitCopied DEF Settled

LEMMA InitFromVectorAnswered ==
  ASSUME SurvivedCalls, Settled, NEW s \in Ranges, InitFromVector(s)
  PROVE  Answered
<1>1. PICK grow \in Grants(Len(s)), fail \in Failing(s) :
        InitWith(initCopy(vector, s, grow, fail), s, 0)
  BY DEF InitFromVector
<1>2. PICK r : r = initCopy(vector, s, grow, fail)
  OBVIOUS
<1>3. s \in Seq(Values) /\ s \in Arguments /\ 0 \in 0 .. Len(s)
  BY ArrayIs DEF Ranges
<1>4. Takes(r, vector, s) \/ Loses(r, vector)
  BY <1>1, <1>2, CopyTaken
<1> QED  BY <1>1, <1>2, <1>3, <1>4, InitAnswered

LEMMA InitFromWalkerAnswered ==
  ASSUME SurvivedCalls, Settled, NEW s \in Ranges, NEW at \in Nat, InitFromWalker(s, at)
  PROVE  Answered
<1>1. PICK grow \in Grants(Len(s)), fail \in Failing(s) :
        InitWith(initCopy(vector, s, grow, fail), s, at)
  BY DEF InitFromWalker
<1>2. PICK r : r = initCopy(vector, s, grow, fail)
  OBVIOUS
<1>3. s \in Seq(Values) /\ s \in Arguments /\ at \in 0 .. Len(s)
  BY ArrayIs DEF Ranges, InitFromWalker
<1>4. Takes(r, vector, s) \/ Loses(r, vector)
  BY <1>1, <1>2, CopyTaken
<1> QED  BY <1>1, <1>2, <1>3, <1>4, InitAnswered

LEMMA InitByMoveAnswered ==
  ASSUME Settled, NEW s \in Ranges, NEW cap \in 0 .. MaxSize, NEW at \in Nat, InitByMove(s, cap, at)
  PROVE  Answered
<1>1. Len(s) <= cap /\ at <= Len(s)
      /\ InitWith(initMove(vector, Holding(vector.kind, s, cap)), s, at)
  BY DEF InitByMove
<1>2. PICK r : r = initMove(vector, Holding(vector.kind, s, cap))
  OBVIOUS
<1>3. s \in Seq(Values) /\ s \in Arguments /\ at \in 0 .. Len(s) /\ cap \in 0 .. MaxBlock
  BY <1>1, ArrayIs, BoundsFacts DEF Ranges
<1>4. Takes(r, vector, s)
  BY <1>1, <1>2, <1>3, InitMoved DEF Settled
<1> QED  BY <1>1, <1>2, <1>3, <1>4, InitAnswered

LEMMA DropAnswered ==
  ASSUME Settled, Clear \/ Invalidate \/ Release
  PROVE  Answered
<1>1. PICK w : Emptied(w, vector) /\ Does("clear", Dropped(w), <<>>, 0, 0)
  <2>1. Sound(vector)
    BY DEF Settled
  <2> QED  BY <2>1, Dropping DEF Clear, Invalidate, Release
<1>2. Sound(w) /\ w.size = 0
  BY <1>1 DEF Emptied
<1>3. /\ vector' = w /\ offset' = 0 /\ CallTypeOK'
      /\ call'.method = "clear" /\ call'.ok
  <2>1. "clear" \in Methods /\ 0 \in Nat /\ <<>> \in Arguments
    BY DEF Methods, Arguments
  <2>2. Does("clear", Walk(w, 0, "NoError"), <<>>, 0, 0)
    BY <1>1 DEF Dropped
  <2> QED  BY <2>1, <2>2, CallMade
<1>4. Items' = <<>>
  BY <1>2, <1>3 DEF Items, ItemsOf
<1>5. Settled'
  BY <1>2, <1>3, BoundsFacts DEF Settled
<1>6. Stored!Done(call')
  BY <1>3, <1>4 DEF Stored!Done, Items, ItemsOf
<1> QED  BY <1>3, <1>5, <1>6 DEF Answered

(* insertRange that stopped after k elements, none of which took a place.  *)
LEMMA PartAppended ==
  ASSUME NEW v, Sound(v), NEW w, NEW s \in Seq(Values), NEW k \in 1 .. Len(s) - 1,
         Overwritten(w, v, v.size, s, k)
  PROVE  ItemsOf(w) = ItemsOf(v) \o SubSeq(s, 1, k)
<1>1. PICK at : at = v.size
  OBVIOUS
<1>2. /\ at \in Nat /\ k \in Nat /\ Len(s) \in Nat /\ 1 <= k /\ k <= Len(s)
      /\ at \in 0 .. v.size /\ at \in at .. v.size
  BY <1>1, SoundIsVec, BoundsAssumption
<1>3. /\ Sound(w) /\ w.kind = v.kind
      /\ w.size = IF at + k <= v.size THEN v.size ELSE at + k
      /\ \A i \in 1 .. w.size :
           w.cells[i] = IF i <= at THEN v.cells[i] ELSE IF i <= at + k THEN s[i - at] ELSE v.cells[i]
  BY <1>1 DEF Overwritten
<1>4. w.size = at + k
  BY <1>1, <1>2, <1>3
<1>5. PICK q : q = SubSeq(s, 1, k)
  OBVIOUS
<1>6. q \in Seq(Values) /\ Len(q) = k /\ \A i \in 1 .. k : q[i] = s[i]
  <2>1. \A i \in 1 .. k : s[i] \in Values
    BY <1>2
  <2>2. /\ SubSeq(s, 1, k) \in Seq(Values)
        /\ Len(SubSeq(s, 1, k)) = IF 1 <= k THEN k - 1 + 1 ELSE 0
        /\ \A i \in 1 .. k - 1 + 1 : SubSeq(s, 1, k)[i] = s[1 + i - 1]
    BY <1>2, <2>1, SubSeqProperties
  <2>3. Len(q) = k
    BY <1>2, <1>5, <2>2
  <2>4. \A i \in 1 .. k : i \in 1 .. k - 1 + 1 /\ 1 + i - 1 = i
    BY <1>2
  <2>5. \A i \in 1 .. k : q[i] = s[i]
    BY <1>5, <2>2, <2>4
  <2> QED  BY <1>5, <2>2, <2>3, <2>5
<1>7. q \in Seq(Cell)
  BY <1>6, ArrayFits DEF Fitting
<1>8. ASSUME NEW i \in 1 .. w.size
      PROVE  w.cells[i] = IF i <= at THEN v.cells[i]
                          ELSE IF i <= at + Len(q) THEN q[i - at]
                          ELSE v.cells[i - at - Len(q) + at]
  <2>1. i \in Nat /\ i <= at + k /\ (~(i <= at) => i - at \in 1 .. k)
    BY <1>2, <1>4
  <2>2. ~(i <= at) => s[i - at] = q[i - at]
    BY <1>6, <2>1
  <2> QED  BY <1>3, <1>6, <2>1, <2>2
<1>9. w.size = at + Len(q) + (v.size - at)
  BY <1>1, <1>2, <1>4, <1>6
<1>10. Splices(w, v, at, q, at)
  BY <1>3, <1>8, <1>9 DEF Splices
<1>11. ItemsOf(w) = SubSeq(ItemsOf(v), 1, at) \o q \o SubSeq(ItemsOf(v), at + 1, Len(ItemsOf(v)))
  BY <1>2, <1>3, <1>7, <1>10, SplicedItems
<1>12. PICK t : t = ItemsOf(v)
  OBVIOUS
<1>13. t \in Seq(Cell) /\ Len(t) = at
  BY <1>1, <1>12, ItemsAre
<1>14. SubSeq(t, 1, at) = t
  BY <1>13, SubSeqFull
<1>15. SubSeq(t, at + 1, Len(t)) = <<>>
  <2>1. Len(t) \in Int /\ at + 1 \in Int /\ Len(t) < at + 1
    BY <1>2, <1>13
  <2> QED  BY <2>1, SubSeqEmpty
<1>16. t \o q \in Seq(Cell) /\ (t \o q) \o <<>> = t \o q
  BY <1>7, <1>13, ConcatProperties, ConcatEmptySeq
<1> QED  BY <1>5, <1>11, <1>12, <1>14, <1>15, <1>16

(* insertRange keeps what every call finds.  That it does no more than     *)
(* StoredSequence allows needs memory for what it puts aside.              *)
LEMMA InsertRangeAnswered ==
  ASSUME Settled, NEW s \in Ranges, NEW at \in Nat, InsertRange(s, at)
  PROVE  Settled' /\ CallTypeOK' /\ ("displaced range" \in Spared => Answered)
<1>1. PICK grow \in GrantsAfter(Len(s)), tempGrows \in {TRUE, at >= vector.size} :
        LET r  == insertRange(vector, s, at, grow, tempGrows, 0)
            st == RangePut(vector, s, at, grow, tempGrows, 0)
        IN  /\ "displaced range" \in Spared /\ at <= vector.size /\ ~Succeeds(r) => st.temp = <<>>
            /\ Does("insertRange", Inserted(vector, r, at), s, at, 0)
  BY DEF InsertRange
<1>2. PICK r : r = insertRange(vector, s, at, grow, tempGrows, 0)
  OBVIOUS
<1>3. PICK temp : temp = RangePut(vector, s, at, grow, tempGrows, 0).temp
  OBVIOUS
<1>4. "displaced range" \in Spared /\ at <= vector.size /\ ~Succeeds(r) => temp = <<>>
  BY <1>1, <1>2, <1>3
<1>5. PICK written : written = r.vector.size - vector.size
  OBVIOUS
<1>6. Does("insertRange", Positioned(vector, r, at, written), s, at, 0)
  BY <1>1, <1>2, <1>5 DEF Inserted
<1>7. /\ Sound(vector) /\ vector.size \in Nat /\ Len(Items) = vector.size
      /\ vector.size \in 0 .. MaxBlock
  BY ItemsAre DEF Settled, Items, Sound
<1>8. s \in Seq(Values) /\ s \in Arguments /\ s \in Seq(Cell)
  BY ArrayIs, ArrayFits DEF Ranges, Fitting
<1>9. \/ Falters(r, vector, at, s, temp)
      \/ at <= vector.size /\ Edits(r, vector, at, s, at)
  BY <1>2, <1>3, <1>7, <1>8, RangeInserted
<1>10. CASE at <= vector.size /\ Edits(r, vector, at, s, at)
  <2>1. written = Len(s)
    BY <1>5, <1>7, <1>8, <1>10, Grown
  <2>2. Lesser(at, vector.size) = at
    BY <1>7, <1>10 DEF Lesser
  <2>3. Writes("insertRange", s, at, 0, at)
    BY DEF Writes
  <2>4. Answered
    BY <1>6, <1>7, <1>8, <1>10, <2>1, <2>2, <2>3, WriteAnswered
  <2> QED  BY <2>4 DEF Answered
<1>11. CASE Falters(r, vector, at, s, temp)
  <2>1. PICK w, e : /\ r = Result(w, e) /\ e # "NoError" /\ Sound(w)
                    /\ at > vector.size => w = vector
                    /\ at <= vector.size /\ temp = <<>> =>
                         \E k \in 0 .. Len(s) - 1 :
                           Overwritten(w, vector, at, s, k) /\ (k = 0 \/ at = vector.size)
    BY <1>11 DEF Falters
  <2>2. r.vector = w /\ r.status # "NoError" /\ ~Succeeds(r)
    BY <2>1 DEF Result, Succeeds
  <2>3. PICK o : o = ValidOffset(at, vector)
    OBVIOUS
  <2>4. o \in 0 .. vector.size /\ o = IF at < Len(Items) THEN at ELSE Len(Items)
    BY <1>7, <2>3, PositionIs
  <2>5. Does("insertRange", Walk(w, o, r.status), s, at, 0)
    <3>1. o + 0 = o
      BY <1>7, <2>4
    <3> QED  BY <1>6, <2>2, <2>3, <3>1 DEF Positioned
  <2>6. /\ vector' = w /\ offset' = o /\ CallTypeOK'
        /\ call'.method = "insertRange" /\ call'.p = s /\ call'.at = at
        /\ ~call'.ok
    <3>1. "insertRange" \in Methods /\ 0 \in Nat
      BY DEF Methods
    <3> QED  BY <1>8, <2>2, <2>5, <3>1, CallMade
  <2>7. Settled'
    <3>1. o \in 0 .. MaxBlock
      BY <1>7, <2>4, BoundsFacts
    <3> QED  BY <2>1, <2>6, <3>1 DEF Settled
  <2>8. ASSUME "displaced range" \in Spared
        PROVE  \/ Items' = Items
               \/ at = Len(Items) /\ \E k \in 1 .. Len(s) - 1 : Items' = Items \o SubSeq(s, 1, k)
    <3>1. CASE at > vector.size
      BY <2>1, <2>6, <3>1 DEF Items
    <3>2. CASE ~(at > vector.size)
      <4>1. at <= vector.size /\ temp = <<>>
        <5>1. at <= vector.size
          BY <1>7, <3>2
        <5> QED  BY <1>4, <2>2, <2>8, <5>1
      <4>2. PICK k \in 0 .. Len(s) - 1 :
              Overwritten(w, vector, at, s, k) /\ (k = 0 \/ at = vector.size)
        BY <2>1, <4>1
      <4>3. CASE k = 0
        <5>1. Same(w, vector)
          <6>1. Overwritten(w, vector, at, s, 0)
            BY <4>2, <4>3
          <6>2. w.kind = vector.kind /\ w.size = vector.size
            BY <1>7, <4>1, <6>1 DEF Overwritten
          <6>3. ASSUME NEW i \in 1 .. vector.size
                PROVE  w.cells[i] = vector.cells[i]
            <7>1. ~(at < i /\ i <= at + 0)
              BY <1>7
            <7> QED  BY <1>7, <6>1, <6>2, <7>1 DEF Overwritten
          <6> QED  BY <6>2, <6>3 DEF Same
        <5> QED  BY <1>7, <2>1, <2>6, <5>1, SameItems DEF Items
      <4>4. CASE k # 0
        <5>1. at = vector.size /\ k \in 1 .. Len(s) - 1
          BY <4>2, <4>4
        <5>2. ItemsOf(w) = ItemsOf(vector) \o SubSeq(s, 1, k)
          BY <1>7, <1>8, <4>2, <5>1, PartAppended
        <5> QED  BY <1>7, <2>6, <5>1, <5>2 DEF Items
      <4> QED  BY <4>3, <4>4
    <3> QED  BY <3>1, <3>2
  <2>9. ASSUME "displaced range" \in Spared
        PROVE  Stored!Refused(call')
    BY <2>4, <2>6, <2>8, <2>9 DEF Stored!Refused, Stored!Keep, Stored!Inside, Items, ItemsOf
  <2> QED  BY <2>6, <2>7, <2>9 DEF Answered
<1> QED  BY <1>9, <1>10, <1>11

(* The invariant: no step leaves the vector or the cursor unsettled.       *)
WalkerInv == Settled /\ CallTypeOK

(* A walker starts with no element.                                        *)
LEMMA StartsSettled ==
  ASSUME Init
  PROVE  WalkerInv /\ Items = <<>>
<1>1. PICK kind \in KindsUsed : vector = Empty(kind)
  BY DEF Init
<1>2. Sound(vector) /\ vector.size = 0
  <2>1. Empty(kind).size = 0
    BY DEF Empty
  <2> QED  BY <1>1, <2>1, EmptySound
<1>3. Settled
  BY <1>2, BoundsFacts DEF Init, Settled
<1>4. CallTypeOK
  <2>1. "clear" \in Methods /\ <<>> \in Arguments
    BY DEF Methods, Arguments
  <2> QED  BY <2>1 DEF Init, CallTypeOK
<1>5. Items = <<>>
  BY <1>2 DEF Items, ItemsOf
<1> QED  BY <1>3, <1>4, <1>5 DEF WalkerInv

(* Every method keeps the invariant and is answered.                       *)
LEMMA EveryCallAnswered ==
  ASSUME SurvivedCalls, Settled, Next
  PROVE  WalkerInv' /\ ("displaced range" \in Spared => Answered)
<1>1. \A n : n \in Positions => n \in Nat /\ n \in 0 .. SizeMax
  BY BoundsFacts
<1>2. \A n : n \in Positions \cup {SizeMax} => n \in Nat /\ n \in 0 .. SizeMax
  BY BoundsFacts
<1>3. ASSUME Answered
      PROVE  WalkerInv' /\ ("displaced range" \in Spared => Answered)
  BY <1>3 DEF Answered, WalkerInv
<1>4. CASE \E x \in Values : PushBack(x)
  BY <1>3, <1>4, PushBackAnswered
<1>5. CASE \E p \in Arrays : PushBackN(p) \/ Write(p)
  <2>1. PICK p \in Arrays : PushBackN(p) \/ Write(p)
    BY <1>5
  <2>2. CASE PushBackN(p)
    BY <1>3, <2>2, PushBackNAnswered
  <2>3. CASE Write(p)
    <3>1. offset \in Nat /\ Replace(p, offset)
      BY <2>3 DEF Write, Settled
    <3>2. PICK at \in Nat : at = offset
      BY <3>1
    <3>3. Answered
      BY <3>1, <3>2, ReplaceAnswered
    <3> QED  BY <1>3, <3>3
  <2> QED  BY <2>1, <2>2, <2>3
<1>6. CASE \E p \in Arrays, at \in Positions : Replace(p, at) \/ Insert(p, at)
  <2>1. PICK p \in Arrays, at \in Positions : Replace(p, at) \/ Insert(p, at)
    BY <1>6
  <2>2. CASE Replace(p, at)
    BY <1>1, <1>3, <2>2, ReplaceAnswered
  <2>3. CASE Insert(p, at)
    BY <1>1, <1>3, <2>3, InsertAnswered
  <2> QED  BY <2>1, <2>2, <2>3
<1>7. CASE \E s \in Ranges : PushBackArithmeticValue(s) \/ InitFromVector(s)
  BY <1>3, <1>7, PushBackArithmeticValueAnswered, InitFromVectorAnswered
<1>8. CASE \E s \in Ranges, at \in Positions : InsertRange(s, at) \/ InitFromWalker(s, at)
  <2>1. PICK s \in Ranges, at \in Positions : InsertRange(s, at) \/ InitFromWalker(s, at)
    BY <1>8
  <2>2. CASE InsertRange(s, at)
    BY <1>1, <2>2, InsertRangeAnswered DEF WalkerInv
  <2>3. CASE InitFromWalker(s, at)
    BY <1>1, <1>3, <2>3, InitFromWalkerAnswered
  <2> QED  BY <2>1, <2>2, <2>3
<1>9. CASE \E s \in Ranges, cap \in 0 .. MaxSize, at \in Positions : InitByMove(s, cap, at)
  BY <1>1, <1>3, <1>9, InitByMoveAnswered
<1>10. CASE \E at \in Positions, n \in Positions \cup {SizeMax} : Erase(at, n) \/ EraseRange(at, n)
  <2>1. PICK at \in Positions, n \in Positions \cup {SizeMax} : Erase(at, n) \/ EraseRange(at, n)
    BY <1>10
  <2>2. /\ at \in Nat /\ at \in 0 .. SizeMax
        /\ n \in Nat /\ n \in 0 .. SizeMax
    BY <1>1, <1>2, <2>1
  <2>3. CASE Erase(at, n)
    BY <1>3, <2>2, <2>3, EraseAnswered
  <2>4. CASE EraseRange(at, n)
    BY <1>3, <2>2, <2>4, EraseRangeAnswered
  <2> QED  BY <2>1, <2>3, <2>4
<1>11. CASE \E n \in Positions, null \in BOOLEAN : Read(n, null)
  BY <1>3, <1>11, ReadAnswered
<1>12. CASE \E n \in Positions \cup {SizeMax} : ReserveFromCurrentOffset(n)
  BY <1>2, <1>3, <1>12, ReserveFromCurrentOffsetAnswered
<1>13. CASE \E n \in Positions : \/ SetSize(n) \/ Reserve(n)
                                 \/ ReadArithmeticValue(n) \/ Seek(n) \/ Index(n)
  <2>1. PICK n \in Positions : \/ SetSize(n) \/ Reserve(n)
                               \/ ReadArithmeticValue(n) \/ Seek(n) \/ Index(n)
    BY <1>13
  <2>2. n \in Nat
    BY <1>1, <2>1
  <2>3. CASE SetSize(n)
    BY <1>3, <2>2, <2>3, SetSizeAnswered
  <2>4. CASE Reserve(n)
    BY <1>3, <2>2, <2>4, ReserveAnswered
  <2>5. CASE ReadArithmeticValue(n)
    BY <1>3, <2>2, <2>5, ReadArithmeticValueAnswered
  <2>6. CASE Seek(n) \/ Index(n)
    BY <1>3, <2>2, <2>6, SeekAnswered DEF Index
  <2> QED  BY <2>1, <2>3, <2>4, <2>5, <2>6
<1>14. CASE Clear \/ Invalidate \/ Release
  BY <1>3, <1>14, DropAnswered
<1> QED  BY <1>4, <1>5, <1>6, <1>7, <1>8, <1>9, <1>10, <1>11, <1>12, <1>13, <1>14 DEF Next

(* Nothing changes when no method is called.                               *)
LEMMA NothingCalled ==
  ASSUME UNCHANGED vars
  PROVE  (WalkerInv => WalkerInv') /\ UNCHANGED <<Items, offset, call>>
  BY DEF vars, WalkerInv, Settled, CallTypeOK, Items

-----------------------------------------------------------------------------
(* What holds of every sequence of calls.                                  *)

(* Whichever methods are called, in whichever order, and whichever of      *)
(* their allocations and copies fail: the vector stays sound (Sound) and   *)
(* the cursor stays within the largest block.  The calls in SurvivedCalls  *)
(* are left out because the code does not survive them.                    *)
THEOREM WalkerInvHolds ==
  ASSUME SurvivedCalls
  PROVE  Spec => []WalkerInv
<1>1. Init => WalkerInv
  BY StartsSettled
<1>2. WalkerInv /\ [Next]_vars => WalkerInv'
  BY EveryCallAnswered, NothingCalled DEF WalkerInv
<1> QED  BY <1>1, <1>2, PTL DEF Spec

(* The vector, the cursor and the last call keep their types.              *)
THEOREM WalkerTypeCorrect ==
  ASSUME SurvivedCalls
  PROVE  Spec => []TypeOK
<1>1. WalkerInv => TypeOK
  BY DEF WalkerInv, Settled, Sound, CallTypeOK, TypeOK, Cell
<1> QED  BY <1>1, WalkerInvHolds, PTL

(* m_allocatedSize is the size of the block m_p points to, and m_dataSize  *)
(* no more than that, after any calls of Walker and of the Vector in it.   *)
THEOREM CapacityStaysReal ==
  ASSUME SurvivedCalls
  PROVE  Spec => []CapacityIsReal
<1>1. WalkerInv => CapacityIsReal
  BY DEF WalkerInv, Settled, Sound, CapacityIsReal
<1> QED  BY <1>1, WalkerInvHolds, PTL

(* Below m_dataSize every place holds a constructed element and above it   *)
(* none does, however reserveInternal, replace, insert, insertRange, erase *)
(* and init destroy, move and copy the elements.                           *)
THEOREM ElementsStayLive ==
  ASSUME SurvivedCalls
  PROVE  Spec => []ElementsLive
<1>1. WalkerInv => ElementsLive
  BY DEF WalkerInv, Settled, Sound, Lives, ElementsLive
<1> QED  BY <1>1, WalkerInvHolds, PTL

(* No method destroys an element twice, constructs one over another, reads *)
(* a dead one, leaves the block, or abandons an element with its block.    *)
THEOREM NothingMisused ==
  ASSUME SurvivedCalls
  PROVE  Spec => []NoMisuse
<1>1. WalkerInv => NoMisuse
  BY DEF WalkerInv, Settled, Sound, NoMisuse
<1> QED  BY <1>1, WalkerInvHolds, PTL

(* Walker implements StoredSequence: what every method makes of the        *)
(* elements and of the cursor, when it succeeds and when it fails, is what *)
(* the abstract sequence says.  insertRange must find memory for what it   *)
(* puts aside ("displaced range").                                         *)
THEOREM WalkerKeepsTheSequence ==
  ASSUME SurvivedCalls, "displaced range" \in Spared
  PROVE  Spec => KeepsTheSequence
<1>1. Init => Stored!Init
  <2>1. Init => Items = <<>>
    BY StartsSettled
  <2>2. Init => offset = 0
    BY DEF Init
  <2>3. ASSUME Init
        PROVE  call.method = "clear"
    <3>1. PICK ok : ok = TRUE
      OBVIOUS
    <3>2. call = [method |-> "clear", p |-> <<>>, at |-> 0, n |-> 0, ok |-> ok]
      BY <2>3, <3>1 DEF Init
    <3> QED  BY <3>2
  <2> QED  BY <2>1, <2>2, <2>3 DEF Stored!Init, Items, ItemsOf
<1>2. WalkerInv /\ [Next]_vars => [Stored!Next]_(Stored!vars)
  <2>1. ASSUME WalkerInv, Next
        PROVE  Stored!Next
    BY <2>1, EveryCallAnswered, AnsweredStored DEF WalkerInv
  <2>2. ASSUME UNCHANGED vars
        PROVE  UNCHANGED Stored!vars
    BY <2>2, NothingCalled DEF Stored!vars, Items, ItemsOf
  <2> QED  BY <2>1, <2>2
<1> QED  BY <1>1, <1>2, WalkerInvHolds, PTL DEF Spec, KeepsTheSequence, Stored!Spec
=============================================================================

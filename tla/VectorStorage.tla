--------------------------- MODULE VectorStorage ---------------------------
(***************************************************************************)
(* Vector<_T> of Vector.h: each operation as the vector and the status it  *)
(* yields.  A vector is its block (cells), m_dataSize (size),              *)
(* m_allocatedSize (cap), the kind of its elements and the faults so far.  *)
(*                                                                         *)
(* grow says what the allocator answers in the call: 0 nothing, 1 exactly  *)
(* what is asked for, 2 the double of it (AllocationStrategy               *)
(* DoubleOfDataSize).  relocates is FALSE when an element fails to be      *)
(* copied to a larger block, fail is the element of the argument that      *)
(* fails to be copied (0: none).  A position outside the vector stands for *)
(* an iterator before begin() or after end().                              *)
(***************************************************************************)
EXTENDS ElementMemory, SequencesExt

CONSTANTS MaxBlock, NullArray, SizeMax

Grows == 0 .. 2

Result(v, status) == [vector |-> v, status |-> status]
Ok(v) == Result(v, "NoError")
Succeeds(r) == r.status = "NoError"

Memory(v) == [cells |-> v.cells, faults |-> v.faults]
With(v, m) == [v EXCEPT !.cells = m.cells, !.faults = m.faults]
Sized(v, n) == [v EXCEPT !.size = n]
Lesser(x, y) == IF x < y THEN x ELSE y

Empty(kind) == [kind |-> kind, cells |-> <<>>, size |-> 0, cap |-> 0, faults |-> {}]

(* How much the allocator gives for n elements; blocks stay below MaxBlock *)
Allocated(n, grow) ==
  IF grow = 0 \/ n > MaxBlock THEN 0 ELSE IF grow = 2 /\ 2 * n <= MaxBlock THEN 2 * n ELSE n

(* size_t arithmetic.                                                      *)
Plus(x, y) == (x + y) % (SizeMax + 1)

(* The first n elements of p.                                              *)
Taken(p, n) == IF n = 0 THEN <<>> ELSE SubSeq(p, 1, n)

(* The elements of the old block that precede position n, in a new block.  *)
NewBlock(v, n, allocated) ==
  [cells  |-> [i \in 1 .. allocated |-> IF i <= n THEN v.cells[i] ELSE Raw],
   faults |-> v.faults \cup DeadSources(v.kind, v.cells, 0, n)]

(* The old block goes, after what is left of its elements is destroyed,    *)
(* and m takes its place.                                                  *)
Replaced(v, m, cap, size) ==
  [v EXCEPT !.cells = m.cells, !.cap = cap, !.size = size,
            !.faults = m.faults \cup DestroyAndDeallocate(v.kind, Memory(v), v.size)]

reserveInternal(v, n, grow, relocates) ==
  LET allocated == Allocated(n, grow)
  IN  IF n <= v.cap THEN Ok(v)
      ELSE IF allocated = 0 THEN Result(v, "ErrorNoMemory")
      ELSE IF ~relocates /\ v.size > 0
           THEN Result([v EXCEPT !.cap = allocated, !.size = 0], "ErrorElement")
      ELSE Ok(Replaced(v, NewBlock(v, v.size, allocated), allocated, v.size))

addSpaceIfNeed(v, n, grow, relocates) ==
  IF Plus(v.size, n) < v.size THEN Result(v, "ErrorOverflow")
  ELSE reserveInternal(v, Plus(v.size, n), grow, relocates)

setSize(v, n, grow) ==
  LET r == reserveInternal(v, n, grow, TRUE)
  IN  IF Succeeds(r) THEN Ok(Sized(r.vector, n)) ELSE r

(* m_AllocationManager.copyToRawNoOverlap or construct at the end.         *)
Appended(v, s, fail) ==
  LET w == With(v, CopyToRawNoOverlap(v.kind, Memory(v), v.size, s, fail))
  IN  IF fail = 0 THEN Ok(Sized(w, w.size + Len(s))) ELSE Result(w, "ErrorElement")

pushBack(v, x, grow, relocates, fail) ==
  LET r == addSpaceIfNeed(v, 1, grow, relocates)
  IN  IF Succeeds(r) THEN Appended(r.vector, <<x>>, fail) ELSE r

pushBackN(v, p, n, grow, relocates, fail) ==
  IF p = NullArray /\ n # 0 THEN Result(v, "ErrorInvalidArgument")
  ELSE LET r == addSpaceIfNeed(v, n, grow, relocates)
       IN  IF Succeeds(r) THEN Appended(r.vector, Taken(p, n), fail) ELSE r

(* Into a new block: the elements before offset, p, and (insert) those     *)
(* from offset on.  A failure to copy leaves the old block with the new    *)
(* capacity, and nobody owns the new one.                                  *)
IntoNewBlock(v, p, offset, tail, newSize, grow, fail) ==
  LET allocated == Allocated(newSize, grow)
      head == NewBlock(v, offset, allocated)
      both == CopyToRawNoOverlap(v.kind, head, offset, p, fail)
      all  == CopyToRawNoOverlap(v.kind, both, offset + Len(p), tail, 0)
      gone == [i \in DOMAIN v.cells |->
                 IF i <= offset THEN LeftBehind(v.kind, v.cells[i]) ELSE v.cells[i]]
  IN  IF allocated = 0 THEN Result(v, "ErrorNoMemory")
      ELSE IF fail # 0
           THEN Result([v EXCEPT !.cap = allocated, !.cells = gone,
                                 !.faults = @ \cup Deallocate(v.kind, both)], "ErrorElement")
      ELSE Ok(Replaced(v, all, allocated, newSize))

(* What replace and insert refuse: n elements of p at offset.              *)
Refusal(v, p, n, offset) ==
  IF p = NullArray /\ n # 0 THEN "ErrorInvalidArgument"
  ELSE IF offset > v.size THEN "ErrorOverflow"
  ELSE "NoError"

(* Mutation: the elements that are replaced are not destroyed.             *)
ReplacedInPlaceOver(v, p, offset, newSize, fail) ==
  LET w == With(v, CopyToRawNoOverlap(v.kind, Memory(v), offset, p, fail))
  IN  IF fail # 0 THEN Result(w, "ErrorElement") ELSE Ok(Sized(w, newSize))

ReplacedInPlace(v, p, offset, newSize, fail) ==
  LET cleared == DestroyN(v.kind, Memory(v), offset, Lesser(Len(p), v.size - offset))
      w == With(v, CopyToRawNoOverlap(v.kind, cleared, offset, p, fail))
  IN  IF fail # 0 THEN Result(w, "ErrorElement") ELSE Ok(Sized(w, newSize))

replace(v, p, n, offset, grow, fail) ==
  LET newSize == IF offset + n > v.size THEN offset + n ELSE v.size
  IN  IF Refusal(v, p, n, offset) # "NoError" THEN Result(v, Refusal(v, p, n, offset))
      ELSE IF newSize > v.cap THEN IntoNewBlock(v, Taken(p, n), offset, <<>>, newSize, grow, fail)
      ELSE ReplacedInPlace(v, Taken(p, n), offset, newSize, fail)

(* The elements on the right of offset are moved out of the way first;     *)
(* moving is the move of them that fails.                                  *)
InsertedInPlace(v, p, offset, moving, fail) ==
  LET right  == v.size - offset
      opened == MoveToDirty(v.kind, Memory(v), offset + Len(p), v.size, offset, right, moving)
      w == With(v, CopyToRawNoOverlap(v.kind, opened, offset, p, fail))
  IN  IF moving # 0 THEN Result(With(v, opened), "ErrorElement")
      ELSE IF fail # 0 THEN Result(w, "ErrorElement")
      ELSE Ok(Sized(w, w.size + Len(p)))

insert(v, p, n, offset, grow, moving, fail) ==
  LET right == SubSeq(v.cells, offset + 1, v.size)
  IN  IF Refusal(v, p, n, offset) # "NoError" THEN Result(v, Refusal(v, p, n, offset))
      ELSE IF Plus(v.size, n) < v.size THEN Result(v, "ErrorOverflow")
      ELSE IF v.size + n > v.cap
           THEN IntoNewBlock(v, Taken(p, n), offset, right, v.size + n, grow, fail)
      ELSE IF n = 0 THEN Ok(v)
      ELSE InsertedInPlace(v, Taken(p, n), offset, moving, fail)

(***************************************************************************)
(* insert of a range of iterators: each element of the range takes the     *)
(* place of the one that stood there, which is put aside in temp; those    *)
(* put aside are appended again at the end.  tempGrows is FALSE when the   *)
(* first allocation of temp fails; a later one may fail too, which differs *)
(* only in how much has been displaced, and is left out.  An element that  *)
(* cannot be copied to the end is counted by the size before.              *)
(***************************************************************************)
Displace(st) ==
  LET x == st.vector.cells[st.offset + 1]
  IN  [st EXCEPT !.vector = With(@, DestroyN(@.kind, Memory(@), st.offset, 1)),
                 !.temp = Append(@, x)]

PutOne(st, x, copied) ==
  LET w == With(st.vector, CopyToRawNoOverlap(st.vector.kind, Memory(st.vector), st.offset, <<x>>,
                                              IF copied THEN 0 ELSE 1))
  IN  [st EXCEPT !.vector = IF st.offset < w.size THEN w ELSE Sized(w, st.offset + 1),
                 !.offset = @ + 1,
                 !.status = IF copied THEN @ ELSE "ErrorElement"]

RangeStep(st, x, grow, tempGrows, copied) ==
  LET r == reserveInternal(st.vector, st.offset + 1, grow, TRUE)
      room == [st EXCEPT !.vector = r.vector]
  IN  IF st.status # "NoError" THEN st
      ELSE IF ~Succeeds(r) THEN [st EXCEPT !.status = r.status]
      ELSE IF room.offset >= r.vector.size THEN PutOne(room, x, copied)
      ELSE IF ~tempGrows THEN [room EXCEPT !.status = "ErrorNoMemory"]
      ELSE PutOne(Displace(room), x, copied)

RangePut(v, s, offset, grow, tempGrows, fail) ==
  LET st[k \in 0 .. Len(s)] ==
        IF k = 0 THEN [vector |-> v, offset |-> offset, temp |-> <<>>, status |-> "NoError"]
        ELSE RangeStep(st[k - 1], s[k], grow, tempGrows, k # fail)
  IN  st[Len(s)]

insertRange(v, s, offset, grow, tempGrows, fail) ==
  LET st    == RangePut(v, s, offset, grow, tempGrows, fail)
      w     == st.vector
      left  == SubSeq(w.cells, st.offset + 1, v.size)
      temp  == st.temp \o left
      aside == With(w, DestroyN(w.kind, Memory(w), st.offset, Len(left)))
      r     == addSpaceIfNeed(Sized(aside, st.offset), Len(temp), grow, TRUE)
  IN  IF offset \notin 0 .. v.size THEN Result(v, "ErrorOverflow")
      ELSE IF st.status # "NoError" THEN Result(w, st.status)
      ELSE IF st.temp = <<>> THEN Ok(w)
      ELSE IF Succeeds(r) THEN Appended(r.vector, temp, 0)
      ELSE r

(* Mutation: the places the elements came from are not destroyed.          *)
EraseCellsKeep(v, offset, n, moving) ==
  LET right == v.size - offset - n
      dead  == DestroyN(v.kind, Memory(v), offset, n)
      down  == MoveToRawNoOverlap(v.kind, dead, offset, offset + n, right, 0)
  IN  Ok(Sized(With(v, down), offset + right))

(* The end of both erase methods: n elements at offset are destroyed, those *)
(* on their right moved down, and the places they came from destroyed;     *)
(* moving is the move that fails.                                          *)
EraseCells(v, offset, n, moving) ==
  LET right == v.size - offset - n
      dead  == DestroyN(v.kind, Memory(v), offset, n)
      down  == MoveToRawNoOverlap(v.kind, dead, offset, offset + n, right, moving)
  IN  IF moving # 0 THEN Result(With(v, down), "ErrorElement")
      ELSE Ok(Sized(With(v, DestroyN(v.kind, down, offset + n, right)), offset + right))

(* Mutation: a length that reaches past the end is not cut.                *)
EraseLengthUncut(v, offset, n) == n

(* A sum that wraps around reaches past the end too.                       *)
EraseLength(v, offset, n) ==
  IF Plus(offset, n) > v.size \/ Plus(offset, n) < offset THEN v.size - offset ELSE n

erase(v, offset, n, moving) ==
  IF offset > v.size \/ (offset = v.size /\ n # 0) THEN Result(v, "ErrorOverflow")
  ELSE IF n = 0 THEN Ok(v)
  ELSE EraseCells(v, offset, EraseLength(v, offset, n), moving)

eraseRange(v, begin, end, moving) ==
  IF begin > end THEN Result(v, "ErrorOverflow")
  ELSE IF begin \notin 0 .. v.size - 1 THEN Result(v, "ErrorInvalidArgument")
  ELSE IF begin = end THEN Ok(v)
  ELSE EraseCells(v, begin, Lesser(end, v.size) - begin, moving)

(* How many elements copyN copies, and the vector, whose elements it reads *)
CopyLength(v, offset, n) == IF Plus(offset, n) > v.size THEN v.size - offset ELSE n

copyN(v, offset, n, null, fail) ==
  IF null /\ n # 0 THEN Result(v, "ErrorInvalidArgument")
  ELSE IF offset > v.size \/ (offset = v.size /\ n # 0) THEN Result(v, "ErrorOverflow")
  ELSE Result([v EXCEPT !.faults =
                 @ \cup DeadSources(v.kind, v.cells, offset, CopyLength(v, offset, n))],
              IF fail THEN "ErrorElement" ELSE "NoError")

copyRange(v, begin, end, fail) ==
  IF begin \notin 0 .. v.size - 1 THEN Result(v, "ErrorInvalidArgument")
  ELSE IF begin > end THEN Result(v, "ErrorOverflow")
  ELSE Result([v EXCEPT !.faults =
                 @ \cup DeadSources(v.kind, v.cells, begin, Lesser(end, v.size) - begin)],
              IF fail THEN "ErrorElement" ELSE "NoError")

clear(v) == Sized(With(v, DestroyN(v.kind, Memory(v), 0, v.size)), 0)

Freed(v) == [Empty(v.kind) EXCEPT !.faults = Deallocate(v.kind, Memory(v))]

invalidate(v) == Freed(clear(v))

(* The block is handed to the caller, who frees it.                        *)
release(v) == [Empty(v.kind) EXCEPT !.faults = v.faults]

(* A vector that holds s in a block of cap cells.                          *)
Holding(kind, s, cap) ==
  [kind |-> kind, cells |-> s \o RawCells(cap - Len(s)), size |-> Len(s), cap |-> cap,
   faults |-> {}]

(* Mutation: the capacity of the block that is given back is kept when     *)
(* there is no other.                                                      *)
initCopyStale(v, s, grow, fail) ==
  LET w  == clear(v)
      nw == [Freed(w) EXCEPT !.cells = RawCells(Allocated(Len(s), grow)),
                             !.cap = Allocated(Len(s), grow)]
  IN  IF Len(s) <= v.cap THEN Appended(w, s, fail)
      ELSE IF Allocated(Len(s), grow) = 0
           THEN Result([Freed(w) EXCEPT !.cap = v.cap], "ErrorNoMemory")
      ELSE Appended(nw, s, fail)

initCopy(v, s, grow, fail) ==
  LET w  == clear(v)
      nw == [Freed(w) EXCEPT !.cells = RawCells(Allocated(Len(s), grow)),
                             !.cap = Allocated(Len(s), grow)]
  IN  IF Len(s) <= v.cap THEN Appended(w, s, fail)
      ELSE IF Allocated(Len(s), grow) = 0 THEN Result(Freed(w), "ErrorNoMemory")
      ELSE Appended(nw, s, fail)

initMove(v, rhs) ==
  Ok([rhs EXCEPT !.faults = DestroyAndDeallocate(v.kind, Memory(v), v.size)])
=============================================================================

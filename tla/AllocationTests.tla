--------------------------- MODULE AllocationTests ---------------------------
(***************************************************************************)
(* The tests of GenericAllocationManagerTests.cpp over one block, in which *)
(* pSrc starts at cell 0 and a pDest of its own at cell 3; and the loops   *)
(* against ElementMemory for every small layout.                           *)
(***************************************************************************)
EXTENDS ElementLoops

MemoryCall(op, to, finish, from, n) == [op |-> op, to |-> to, finish |-> finish, from |-> from, n |-> n]
Build(at, n) == MemoryCall("constructN", at, at, at, n)
BuildOne(at) == MemoryCall("construct", at, at, at, 1)
Kill(at, n) == MemoryCall("destroyN", at, at, at, n)
ToRaw(op, to, from, n) == MemoryCall(op, to, to, from, n)

(* ErrorProne::counter = 0, errorOnCounter = n, destructorCalledCounter =  *)
(* sumOfDeletedIndexes = 0.                                                *)
CountTo(n) == MemoryCall("count", 0, 0, 0, n)

(* The block holds what constructN of "123" puts there; a numbered block   *)
(* is filled by the test itself.                                           *)
MemoryTest(m, steps) == [class |-> "Memory", memory |-> m, steps |-> steps]
Raws(n) == RawCells(n)
Ints == <<"1", "2", "3">>
Strs(n) == [i \in 1 .. n |-> "123"]
IntBlock(cells) == MemoryOf("bytes", FALSE, cells)
StrBlock(cells) == MemoryOf("movable", FALSE, cells)
ProneBlock(n) == MemoryOf("copied", TRUE, Raws(n))

Mem(call, expected) == [on |-> "memory", call |-> call, expected |-> expected @@ [status |-> "NoError"]]
MemFails(call, count, sum) ==
  [on |-> "memory", call |-> call,
   expected |-> [status |-> "ErrorElement", deleted |-> count, deletedSum |-> sum]]

AllocateAndConstruct ==
  <<MemoryTest(IntBlock(<<>>), <<Mem(ToRaw("allocateAndConstruct", 0, 0, 3), [cells |-> Strs(3)])>>),
    MemoryTest(StrBlock(<<>>), <<Mem(ToRaw("allocateAndConstruct", 0, 0, 3), [cells |-> Strs(3)])>>)>>

AllocateAndConstructErrorOnConstruction ==
  MemoryTest(ProneBlock(0), <<Mem(CountTo(2), <<>>),
    MemFails(ToRaw("allocateAndConstruct", 0, 0, 3), 2, 1)>>)

ConstructRawAndCtor ==
  <<MemoryTest(IntBlock(Raws(1)), <<Mem(BuildOne(0), [cells |-> Strs(1)]), Mem(Kill(0, 1), <<>>)>>),
    MemoryTest(StrBlock(Raws(1)), <<Mem(BuildOne(0), [cells |-> Strs(1)]), Mem(Kill(0, 1), <<>>)>>)>>

ConstructErrorOnConstruction ==
  MemoryTest(ProneBlock(1), <<Mem(CountTo(0), <<>>), MemFails(BuildOne(0), 0, 0)>>)

ConstructN ==
  <<MemoryTest(IntBlock(Raws(3)), <<Mem(Build(0, 3), [cells |-> Strs(3)])>>),
    MemoryTest(StrBlock(Raws(3)), <<Mem(Build(0, 3), [cells |-> Strs(3)])>>)>>

ConstructNErrorOnConstruction ==
  MemoryTest(ProneBlock(3), <<Mem(CountTo(2), <<>>), MemFails(Build(0, 3), 2, 1)>>)

(* The tests of an operation that takes its elements to another array: of  *)
(* int, of std::string (dirty of which are already there) and of           *)
(* ErrorProne, whose third one fails.                                      *)
Elsewhere(op, dirty) ==
  <<MemoryTest(IntBlock(Ints \o Raws(3)), <<Mem(MemoryCall(op, 3, 3 + dirty, 0, 3), [ends |-> Ints])>>),
    MemoryTest(StrBlock(Strs(3 + dirty) \o Raws(3 - dirty)),
      <<Mem(MemoryCall(op, 3, 3 + dirty, 0, 3), [ends |-> Strs(3)])>>)>>

CopyToRawNoOverlapTests == Elsewhere("copyToRawNoOverlap", 0)
MoveToRawNoOverlapTests == Elsewhere("moveToRawNoOverlap", 0)
CopyToDirtyNoOverlapTests == Elsewhere("copyToDirtyNoOverlap", 2)
MoveToDirtyNoOverlapTests == Elsewhere("moveToDirtyNoOverlap", 2)

RawErrorOnConstruction(op) ==
  MemoryTest(ProneBlock(6),
    <<Mem(Build(0, 3), <<>>), Mem(CountTo(2), <<>>), MemFails(ToRaw(op, 3, 0, 3), 2, 1)>>)

DirtyNoOverlapErrorOnConstruction(op) ==
  MemoryTest(ProneBlock(6),
    <<Mem(Build(0, 3), <<>>), Mem(CountTo(4), <<>>), Mem(Build(3, 2), <<>>),
      MemFails(MemoryCall(op, 3, 5, 0, 3), 2 + 2, 6)>>)

CopyToRawNoOverlapErrorOnConstruction == RawErrorOnConstruction("copyToRawNoOverlap")
MoveToRawNoOverlapErrorOnConstruction == RawErrorOnConstruction("moveToRawNoOverlap")
CopyToDirtyNoOverlapErrorOnConstruction == DirtyNoOverlapErrorOnConstruction("copyToDirtyNoOverlap")
MoveToDirtyNoOverlapErrorOnConstruction == DirtyNoOverlapErrorOnConstruction("moveToDirtyNoOverlap")

CopyToDirtyTests ==
  <<MemoryTest(IntBlock(Ints), <<Mem(MemoryCall("copyToDirty", 0, 3, 0, 3), [cells |-> Ints])>>),
    MemoryTest(StrBlock(Strs(2) \o Raws(1)),
      <<Mem(MemoryCall("copyToDirty", 1, 2, 0, 2), [cells |-> Strs(3)])>>)>>

CopyToDirtyErrorOnConstruction ==
  MemoryTest(ProneBlock(4),
    <<Mem(CountTo(5), <<>>), Mem(Build(0, 3), <<>>),
      MemFails(MemoryCall("copyToDirty", 1, 3, 0, 3), 2 + 2, 10)>>)

MoveToDirtyTests ==
  <<MemoryTest(IntBlock(Ints), <<Mem(MemoryCall("moveToDirty", 0, 3, 0, 3), [cells |-> Ints])>>),
    MemoryTest(StrBlock(Strs(4)), <<Mem(MemoryCall("moveToDirty", 1, 4, 0, 3), [ends |-> Strs(3)])>>)>>

MoveToDirtyErrorOnConstruction ==
  MemoryTest(ProneBlock(6),
    <<Mem(CountTo(8), <<>>), Mem(Build(0, 5), <<>>),
      MemFails(MemoryCall("moveToDirty", 2, 5, 0, 4), 3 + 3, 27)>>)

DestroyTests ==
  LET Killed(n, call, sum) ==
        MemoryTest(ProneBlock(n),
          <<Mem(Build(0, n), <<>>), Mem(call, [deleted |-> n, deletedSum |-> sum])>>)
  IN  <<Killed(3, ToRaw("destroyAndDeallocate", 0, 0, 3), 3), Killed(1, Kill(0, 1), 0),
        Killed(3, Kill(0, 3), 3)>>

AllocationSuite ==
  AllocateAndConstruct \o ConstructRawAndCtor \o ConstructN
  \o CopyToRawNoOverlapTests \o MoveToRawNoOverlapTests
  \o CopyToDirtyNoOverlapTests \o MoveToDirtyNoOverlapTests
  \o CopyToDirtyTests \o MoveToDirtyTests \o DestroyTests
  \o <<AllocateAndConstructErrorOnConstruction, ConstructErrorOnConstruction,
       ConstructNErrorOnConstruction, CopyToRawNoOverlapErrorOnConstruction,
       MoveToRawNoOverlapErrorOnConstruction, CopyToDirtyNoOverlapErrorOnConstruction,
       MoveToDirtyNoOverlapErrorOnConstruction, CopyToDirtyErrorOnConstruction,
       MoveToDirtyErrorOnConstruction>>

(***************************************************************************)
(* The memory after a call, and what an assertion sees of it.              *)
(***************************************************************************)

Moves(op) == op \in {"moveToRawNoOverlap", "moveToDirty", "moveToDirtyNoOverlap"}

MemoryAfter(m, c) ==
  CASE c.op = "count" -> [m EXCEPT !.counter = 0, !.errorOn = c.n, !.destroyed = <<>>]
    [] c.op = "construct" -> construct(m, c.to, "123")
    [] c.op = "constructN" -> constructN(m, c.to, c.n, "123")
    [] c.op = "allocateAndConstruct" -> allocateAndConstruct(m, c.n, "123")
    [] c.op \in {"copyToRawNoOverlap", "moveToRawNoOverlap"} ->
         ToRawNoOverlap(m, c.to, c.from, c.n, Moves(c.op))
    [] c.op \in {"copyToDirtyNoOverlap", "moveToDirtyNoOverlap"} ->
         ToDirtyNoOverlap(m, c.to, c.finish, c.from, c.n, Moves(c.op))
    [] c.op \in {"copyToDirty", "moveToDirty"} ->
         ToDirty(m, c.to, c.finish, c.from, c.n, Moves(c.op))
    [] c.op = "destroyN" -> destroyN(m, c.to, c.n)
    [] c.op = "destroyAndDeallocate" -> destroyAndDeallocate(m, c.n)

(* ErrorProne counts its objects from 0; one whose init failed counts as 0 *)
Index(object) == IF object \in Range(Numbers) THEN CHOOSE i \in DOMAIN Numbers : Numbers[i] = object
                 ELSE 1

SeenOfMemory(m) ==
  [status |-> m.status, cells |-> m.cells, elements |-> m.cells, faults |-> m.faults \ {"overlap"},
   deleted |-> Len(m.destroyed),
   deletedSum |-> FoldSeq(LAMBDA x, sum : Index(x) - 1 + sum, 0, m.destroyed)]

(***************************************************************************)
(* Every layout of a small block: live elements, then raw memory, and two  *)
(* regions of n elements; the loops answer what ElementMemory says.        *)
(***************************************************************************)

BlockLength == 5
Letters == <<"abc", "def", "ghi", "###", "$$$">>

Layouts ==
  {l \in [kind : Kinds, live : 0 .. BlockLength, to : 0 .. BlockLength, from : 0 .. BlockLength,
          n : 1 .. 3, fail : 0 .. 3, op : {"moveToRawNoOverlap", "moveToDirty", "copyToRawNoOverlap"}] :
     /\ l.to + l.n <= BlockLength /\ l.from + l.n <= l.live /\ l.to # l.from
     /\ l.fail <= l.n
     /\ l.fail = 0 \/ l.kind = "copied"
     /\ CASE l.op = "moveToRawNoOverlap" -> l.to < l.from
          [] l.op = "moveToDirty"        -> l.from < l.to
          [] OTHER -> ~Overlap(l.to, l.from, l.n)}

NoLayout ==
  [kind |-> "bytes", live |-> 0, to |-> 0, from |-> 0, n |-> 1, fail |-> 0, op |-> "moveToDirty"]

LayoutTest(l) ==
  LET cells == [i \in 1 .. BlockLength |-> IF i <= l.live THEN Letters[i] ELSE Raw]
      before == [cells |-> cells, faults |-> {}]
      after == CASE l.op = "moveToRawNoOverlap" ->
                      MoveToRawNoOverlap(l.kind, before, l.to, l.from, l.n, l.fail)
                 [] l.op = "moveToDirty" ->
                      MoveToDirty(l.kind, before, l.to, l.live, l.from, l.n, l.fail)
                 [] OTHER -> CopyToRawNoOverlap(l.kind, before, l.to,
                                                SubSeq(cells, l.from + 1, l.from + l.n), l.fail)
      m == [MemoryOf(l.kind, FALSE, cells) EXCEPT !.errorOn = IF l.fail = 0 THEN Never ELSE l.fail - 1]
  IN  MemoryTest(m, <<[on |-> "memory", call |-> MemoryCall(l.op, l.to, l.live, l.from, l.n),
                       expected |-> [cells |-> after.cells,
                                     faults |-> after.faults \ {"overlap"}]]>>)
=============================================================================

---------------------------- MODULE TestScripts ----------------------------
(***************************************************************************)
(* The vocabulary in which the unit tests of Vector and Walker are told:   *)
(* the objects under test (a vector, the cursor of a walker, what its      *)
(* allocator grants, the array the test copies into), the calls, and what  *)
(* an assertion sees of an object after a call.                            *)
(***************************************************************************)
EXTENDS WalkerMethods

(* What stands for a number that a call has not written for its caller.    *)
Untouched == -1

(* A manager doubles what is asked for, gives exactly that, or holds a     *)
(* storage of some elements (RawKeeperAllocator), which no copy shares.    *)
Doubling == [growth |-> 2, storage |-> MaxBlock]
Strict == [growth |-> 1, storage |-> MaxBlock]
Storage(n) == [growth |-> 1, storage |-> n]
CopiedManager(m) == IF m.storage < MaxBlock THEN Storage(0) ELSE m

Fresh(class, kind, manager) ==
  [class |-> class, vector |-> Empty(kind), offset |-> 0, manager |-> manager, dest |-> <<>>]

(* A call: n elements of p, or n as a size or a position, at an offset.    *)
(* fail, moving and relocates say what cannot be copied; other is the      *)
(* object an init takes.                                                   *)
Call(op, p, n, at) ==
  [op |-> op, p |-> p, n |-> n, at |-> at, other |-> "", fail |-> 0, moving |-> 0,
   relocates |-> TRUE]

Look == Call("look", <<>>, 0, 0)
Push(x) == Call("pushBackN", <<x>>, 1, 0)
PushN(p, n) == Call("pushBackN", p, n, 0)
Put(p, n, at) == Call("replace", p, n, at)
Write(p, n) == Call("write", p, n, 0)
Ins(p, n, at) == Call("insert", p, n, at)
InsRange(s, at) == Call("insertRange", s, Len(s), at)
Cut(at, n) == Call("erase", <<>>, n, at)
CutRange(begin, end) == Call("eraseRange", <<>>, end, begin)
Copy(at, n, dest) == Call("copyN", dest, n, at)
CopyRange(begin, end) == Call("copyRange", <<>>, end, begin)
Read(n, dest) == Call("read", dest, n, 0)
ReadBytes(n) == Call("readArithmeticValue", <<>>, n, 0)
Size(n) == Call("setSize", <<>>, n, 0)
Reserve(n) == Call("reserve", <<>>, n, 0)
ReserveHere(n) == Call("reserveFromCurrentOffset", <<>>, n, 0)
Seek(at) == Call("seek", <<>>, 0, at)
InitFrom(other) == [Call("copyInit", <<>>, 0, 0) EXCEPT !.other = other]
MoveFrom(other) == [Call("moveInit", <<>>, 0, 0) EXCEPT !.other = other]
Strategy(manager) == Call("setAllocationStrategy", manager, 0, 0)
Drop(op) == Call(op, <<>>, 0, 0)

(* Call c, in which element number k of those passed, the first of those   *)
(* moved, or one of the old block cannot be copied.                        *)
FailingAt(c, k) == [c EXCEPT !.fail = k]
FailingMove(c) == [c EXCEPT !.moving = 1]
FailingRelocation(c) == [c EXCEPT !.relocates = FALSE]

(* A step of a test: a call and what it is expected to show.               *)
On(name, c, expected) == [on |-> name, call |-> c, expected |-> expected]
Fine(name, c, expected) == On(name, c, expected @@ [status |-> "NoError"])
Fails(name, c, status, expected) == On(name, c, expected @@ [status |-> status])

(***************************************************************************)
(* A call carried out.                                                     *)
(***************************************************************************)

AtCursor == {"write", "read", "readArithmeticValue"}
Copying == {"copyN", "copyRange", "read", "readArithmeticValue"}
Reserving == {"reserve", "reserveFromCurrentOffset"}

(* The call with what the objects it mentions hold.                        *)
Located(objects, o, c) ==
  IF c.op \in AtCursor THEN [c EXCEPT !.at = o.offset]
  ELSE IF c.op # "copyInit" THEN c
  ELSE LET rhs == objects[c.other]
       IN  [c EXCEPT !.p = Taken(rhs.vector.cells, rhs.vector.size), !.n = rhs.vector.size,
                     !.at = rhs.offset]

Granted(objects, o, c) ==
  LET asked == IF c.op \in {"setSize", "copyInit"} \cup Reserving THEN c.n ELSE o.vector.size + c.n
      manager == IF c.op = "copyInit" THEN CopiedManager(objects[c.other].manager) ELSE o.manager
  IN  IF asked > manager.storage /\ manager.storage < MaxBlock THEN 0
      ELSE IF c.op \in Reserving THEN 1
      ELSE manager.growth

OfVector(v, c, grow) ==
  CASE c.op = "pushBackN" -> pushBackN(v, c.p, c.n, grow, c.relocates, c.fail)
    [] c.op \in {"replace", "write"} -> replace(v, c.p, c.n, c.at, grow, c.fail)
    [] c.op = "insert" -> insert(v, c.p, c.n, c.at, grow, c.moving, c.fail)
    [] c.op = "insertRange" -> insertRange(v, c.p, c.at, grow, TRUE, c.fail)
    [] c.op = "erase" -> erase(v, c.at, c.n, c.moving)
    [] c.op = "eraseRange" -> eraseRange(v, c.at, c.n, c.moving)
    [] c.op = "copyN" -> copyN(v, c.at, c.n, c.p = NullArray, c.fail # 0)
    [] c.op = "copyRange" -> copyRange(v, c.at, c.n, c.fail # 0)
    [] c.op = "setSize" -> setSize(v, c.n, grow)
    [] c.op = "reserve" -> reserveInternal(v, c.n, grow, c.relocates)
    [] c.op = "copyInit" -> initCopy(v, c.p, grow, c.fail)
    [] c.op = "clear" -> Ok(clear(v))
    [] c.op \in {"invalidate", "destructor"} -> Ok(invalidate(v))
    [] c.op = "release" -> Ok(release(v))
    [] OTHER -> Ok(v)

(* The walker's method around the result r of the vector's.                *)
OfWalker(v, offset, c, grow, r) ==
  CASE c.op \in {"pushBackN", "setSize"} -> AtEnd(r)
    [] c.op \in {"replace", "write"} -> Positioned(v, r, c.at, c.n)
    [] c.op \in {"insert", "insertRange"} -> Inserted(v, r, c.at)
    [] c.op \in {"erase", "eraseRange"} -> Positioned(v, r, c.at, 0)
    [] c.op = "read" -> readN(v, offset, c.n, c.p = NullArray, c.fail # 0)
    [] c.op = "readArithmeticValue" -> readArithmeticValue(v, offset, c.n)
    [] c.op = "reserveFromCurrentOffset" ->
         reserveFromCurrentOffset(v, offset, c.n, grow, c.relocates)
    [] c.op = "seek" -> seek(v, c.at)
    [] c.op = "copyInit" -> Initialised(r, offset, c.at)
    [] c.op \in {"clear", "invalidate", "release"} -> Dropped(r.vector)
    [] OTHER -> Walk(r.vector, offset, r.status)

OfObject(o, c, grow, r) ==
  IF o.class = "Walker" THEN OfWalker(o.vector, o.offset, c, grow, r)
  ELSE Walk(r.vector, 0, r.status)

Outcome(objects, o, c, grow) ==
  IF c.op = "moveInit"
  THEN Walk(initMove(o.vector, objects[c.other].vector).vector, objects[c.other].offset, "NoError")
  ELSE OfObject(o, c, grow, OfVector(o.vector, c, grow))

(* The elements a call copies to its caller.                               *)
CopiedOut(v, c) ==
  IF c.op \notin Copying THEN <<>>
  ELSE IF c.op = "copyRange" THEN SubSeq(v.cells, c.at + 1, Lesser(c.n, v.size))
  ELSE SubSeq(v.cells, c.at + 1, c.at + CopyLength(v, c.at, c.n))

(* The number it writes for its caller: how many it has copied, or the     *)
(* position after what it has put in.                                      *)
WrittenNumber(v, c) ==
  IF c.op \in Copying THEN Len(CopiedOut(v, c))
  ELSE IF c.op \in {"replace", "insert", "insertRange"} THEN c.at + c.n
  ELSE Untouched

Overwritten(dest, s) == s \o SubSeq(dest, Len(s) + 1, Len(dest))

ManagerAfter(objects, o, c) ==
  CASE c.op = "setAllocationStrategy" -> c.p
    [] c.op = "copyInit" -> CopiedManager(objects[c.other].manager)
    [] c.op = "moveInit" -> objects[c.other].manager
    [] OTHER -> o.manager

(* The objects after call c of object name that was answered with w, its   *)
(* status and what it has written; a move takes what the other one holds.  *)
Answered(objects, name, c, w) ==
  LET o == objects[name]
      left == IF c.op = "moveInit"
              THEN [objects EXCEPT ![c.other].vector = release(@), ![c.other].offset = 0]
              ELSE objects
      copied == IF w.status = "NoError" THEN CopiedOut(o.vector, c) ELSE <<>>
  IN  [objects |-> [left EXCEPT ![name] =
                      [o EXCEPT !.vector = w.vector, !.offset = w.offset,
                                !.dest = Overwritten(@, copied),
                                !.manager = ManagerAfter(objects, o, c)]],
       status  |-> w.status,
       out     |-> IF w.status = "NoError" THEN WrittenNumber(o.vector, c) ELSE Untouched]

PerformedAt(objects, name, c) ==
  Answered(objects, name, c, Outcome(objects, objects[name], c, Granted(objects, objects[name], c)))

Performed(objects, name, call) == PerformedAt(objects, name, Located(objects, objects[name], call))

(* What an assertion may look at.                                          *)
Seen(o, performed) ==
  [status |-> performed.status, out |-> performed.out, size |-> o.vector.size,
   capacity |-> o.vector.cap, data |-> IF o.vector.cells = <<>> THEN "nullptr" ELSE "block",
   elements |-> Taken(o.vector.cells, o.vector.size), tell |-> o.offset, dest |-> o.dest]

(* The assertions on what is seen; "starts" and "ends" are about some of   *)
(* the elements only.                                                      *)
Holds(expected, seen) ==
  \A field \in DOMAIN expected :
    CASE field = "starts" -> IsPrefix(expected.starts, seen.elements)
      [] field = "ends"   -> IsSuffix(expected.ends, seen.elements)
      [] OTHER            -> expected[field] = seen[field]
=============================================================================

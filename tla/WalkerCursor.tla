---------------------------- MODULE WalkerCursor ----------------------------
(***************************************************************************)
(* Walker<_T> of Walker.h: a vector and a cursor (m_offset).  Every method *)
(* that changes either is an action, which runs the vector's method to its *)
(* end and sets the cursor, early returns included; call records the last  *)
(* call for StoredSequence.  The library's own walkers hold bytes; the     *)
(* elements of a user's may need construction.                             *)
(*                                                                         *)
(* Spared names calls the code does not survive and a run leaves out:      *)
(*   "relocation"       an element fails to be copied to a larger block    *)
(*   "positioned copy"  an element fails to be copied in replace or insert *)
(*   "longer tail"      erase of fewer elements than stand on their right  *)
(*   "among copied"     insert in place before elements that a move copies *)
(*   "displaced range"  no memory in insertRange after an element was put  *)
(*                      aside                                              *)
(***************************************************************************)
EXTENDS WalkerMethods

CONSTANTS KindsUsed, Arrays, MaxSize, Spared

ASSUME BoundsAssumption ==
  /\ MaxSize \in Nat /\ MaxBlock \in Nat /\ MaxSize <= MaxBlock
  /\ SizeMax \in Nat /\ SizeMax > 2 * MaxBlock
  /\ KindsUsed \subseteq Kinds
  /\ {Raw, Moved, Blank} \cap Values = {} /\ Raw # Moved
  /\ Arrays \subseteq Seq(Values) \cup {NullArray}

VARIABLES vector, offset, call

vars == <<vector, offset, call>>

Methods == {"pushBackN", "replace", "insert", "insertRange", "erase", "read",
            "readArithmeticValue", "seek", "setSize", "reserve", "init", "clear"}

Ranges == Arrays \ {NullArray}

(* What call has for an argument: an array, one element, or nothing.       *)
Arguments == Arrays \cup {<<x>> : x \in Values} \cup {<<>>}

Positions == 0 .. MaxSize + 1
Relocations ==
  IF vector.kind = "copied" /\ "relocation" \notin Spared THEN BOOLEAN ELSE {TRUE}

(* What the allocator may answer, when it is asked for n elements at all.  *)
Grants(n) == IF n <= vector.cap THEN {1} ELSE Grows
GrantsAfter(n) == Grants(vector.size + n)

(* The element of p that fails to be copied.                               *)
Failing(p) ==
  IF Constructs(vector.kind) /\ p # NullArray THEN 0 .. Len(p) ELSE {0}
FailingInPlace(p) == IF "positioned copy" \in Spared THEN {0} ELSE Failing(p)

(* A null array is passed with a length of 1.                              *)
Length(p) == IF p = NullArray THEN 1 ELSE Len(p)

Fits(n) == vector.size + n <= MaxSize

(* The call that was answered with w.                                      *)
Does(method, w, p, at, n) ==
  /\ vector' = w.vector
  /\ offset' = w.offset
  /\ call' = [method |-> method, p |-> p, at |-> at, n |-> n, ok |-> w.status = "NoError"]

Init ==
  /\ vector \in {Empty(kind) : kind \in KindsUsed}
  /\ offset = 0
  /\ call = [method |-> "clear", p |-> <<>>, at |-> 0, n |-> 0, ok |-> TRUE]

PushBack(x) ==
  /\ Fits(1)
  /\ \E grow \in GrantsAfter(1), relocates \in Relocations, fail \in Failing(<<x>>) :
       Does("pushBackN", AtEnd(pushBack(vector, x, grow, relocates, fail)), <<x>>, 0, 0)

PushBackN(p) ==
  /\ Fits(Length(p))
  /\ \E grow \in GrantsAfter(Length(p)), relocates \in Relocations, fail \in Failing(p) :
       Does("pushBackN", AtEnd(pushBackN(vector, p, Length(p), grow, relocates, fail)), p, 0, 0)

(* No element is constructed: the bytes of a value in one piece.           *)
PushBackArithmeticValue(s) ==
  /\ vector.kind = "bytes"
  /\ Fits(Len(s))
  /\ \E grow \in GrantsAfter(Len(s)) :
       Does("pushBackN", AtEnd(pushBackN(vector, s, Len(s), grow, TRUE, 0)), s, 0, 0)

SetSize(n) ==
  /\ vector.kind = "bytes"
  /\ n <= MaxSize
  /\ \E grow \in Grants(n) : Does("setSize", AtEnd(setSize(vector, n, grow)), <<>>, 0, n)

Reserve(n) ==
  /\ n <= MaxSize
  /\ \E grow \in Grants(n) \ {2}, relocates \in Relocations :
       LET r == reserveInternal(vector, n, grow, relocates)
       IN  Does("reserve", Walk(r.vector, offset, r.status), <<>>, 0, n)

(* The sum may wrap around, and is then refused.                           *)
ReserveFromCurrentOffset(n) ==
  /\ Plus(offset, n) <= MaxSize
  /\ \E grow \in Grants(Plus(offset, n)) \ {2}, relocates \in Relocations :
       Does("reserve", reserveFromCurrentOffset(vector, offset, n, grow, relocates), <<>>, 0, n)

Replace(p, at) ==
  /\ at + Length(p) <= MaxSize \/ at > vector.size
  /\ \E grow \in Grants(at + Length(p)), fail \in FailingInPlace(p) :
       Does("replace",
            Positioned(vector, replace(vector, p, Length(p), at, grow, fail), at, Length(p)),
            p, at, 0)

Write(p) == Replace(p, offset)

(* An insert before elements that a move merely copies.                    *)
AmongCopied(p, at) ==
  /\ vector.kind = "copied"
  /\ at < vector.size
  /\ p \notin {NullArray, <<>>}
  /\ vector.size + Len(p) <= vector.cap

Insert(p, at) ==
  /\ Fits(Length(p))
  /\ "among copied" \in Spared => ~AmongCopied(p, at)
  /\ \E grow \in GrantsAfter(Length(p)), fail \in FailingInPlace(p) :
       Does("insert",
            Inserted(vector, insert(vector, p, Length(p), at, grow, 0, fail), at),
            p, at, 0)

InsertRange(s, at) ==
  /\ Fits(Len(s))
  /\ \E grow \in GrantsAfter(Len(s)), tempGrows \in {TRUE, at >= vector.size} :
       LET r  == insertRange(vector, s, at, grow, tempGrows, 0)
           st == RangePut(vector, s, at, grow, tempGrows, 0)
       IN  /\ "displaced range" \in Spared /\ at <= vector.size /\ ~Succeeds(r) => st.temp = <<>>
           /\ Does("insertRange", Inserted(vector, r, at), s, at, 0)

(* More elements on the right than are erased.                             *)
LongerTail(at, n) == 0 < n /\ n < vector.size - at - n

(* The move that fails, of the right elements that erase moves.            *)
Moving(right) ==
  IF vector.kind = "copied" /\ "positioned copy" \notin Spared /\ right > 0 THEN 0 .. right ELSE {0}

Erase(at, n) ==
  /\ "longer tail" \in Spared => ~LongerTail(at, n)
  /\ \E moving \in Moving(vector.size - at - n) :
       Does("erase", Positioned(vector, erase(vector, at, n, moving), at, 0), <<>>, at, n)

EraseRange(begin, end) ==
  LET n == IF begin < end THEN end - begin ELSE 0
  IN  /\ "longer tail" \in Spared => ~LongerTail(begin, n)
      /\ \E moving \in Moving(vector.size - end) :
           Does("erase", Positioned(vector, eraseRange(vector, begin, end, moving), begin, 0),
                <<>>, begin, n)

Read(n, null) ==
  \E fail \in (IF Constructs(vector.kind) THEN BOOLEAN ELSE {FALSE}) :
    Does("read", readN(vector, offset, n, null, fail), <<>>, 0, n)

ReadArithmeticValue(n) ==
  /\ vector.kind = "bytes"
  /\ Does("readArithmeticValue", readArithmeticValue(vector, offset, n), <<>>, 0, n)

Seek(at) == Does("seek", seek(vector, at), <<>>, at, 0)

Index(at) == at < vector.size /\ Seek(at)

InitWith(r, s, at) == Does("init", Initialised(r, offset, at), s, at, 0)

InitFromVector(s) ==
  \E grow \in Grants(Len(s)), fail \in Failing(s) : InitWith(initCopy(vector, s, grow, fail), s, 0)

InitFromWalker(s, at) ==
  /\ at <= Len(s)
  /\ \E grow \in Grants(Len(s)), fail \in Failing(s) : InitWith(initCopy(vector, s, grow, fail), s, at)

InitByMove(s, cap, at) ==
  /\ Len(s) <= cap
  /\ at <= Len(s)
  /\ InitWith(initMove(vector, Holding(vector.kind, s, cap)), s, at)

Clear == Does("clear", Dropped(clear(vector)), <<>>, 0, 0)
Invalidate == Does("clear", Dropped(invalidate(vector)), <<>>, 0, 0)
Release == Does("clear", Dropped(release(vector)), <<>>, 0, 0)

Next ==
  \/ \E x \in Values : PushBack(x)
  \/ \E p \in Arrays : PushBackN(p) \/ Write(p)
  \/ \E p \in Arrays, at \in Positions : Replace(p, at) \/ Insert(p, at)
  \/ \E s \in Ranges : PushBackArithmeticValue(s) \/ InitFromVector(s)
  \/ \E s \in Ranges, at \in Positions : InsertRange(s, at) \/ InitFromWalker(s, at)
  \/ \E s \in Ranges, cap \in 0 .. MaxSize, at \in Positions : InitByMove(s, cap, at)
  \/ \E at \in Positions, n \in Positions \cup {SizeMax} : Erase(at, n) \/ EraseRange(at, n)
  \/ \E n \in Positions, null \in BOOLEAN : Read(n, null)
  \/ \E n \in Positions \cup {SizeMax} : ReserveFromCurrentOffset(n)
  \/ \E n \in Positions :
       \/ SetSize(n) \/ Reserve(n)
       \/ ReadArithmeticValue(n) \/ Seek(n) \/ Index(n)
  \/ Clear \/ Invalidate \/ Release

Spec == Init /\ [][Next]_vars

(***************************************************************************)
(* Properties.                                                             *)
(***************************************************************************)

(* The vector, the cursor and the last call have their types.              *)
TypeOK ==
  /\ vector \in [kind : KindsUsed, size : 0 .. MaxBlock, cap : 0 .. MaxBlock,
                 faults : SUBSET Faults, cells : Seq(Values \cup {Raw, Moved, Blank})]
  /\ offset \in 0 .. MaxBlock
  /\ call \in [method : Methods, p : Arguments, at : Nat, n : Nat, ok : BOOLEAN]

(* m_allocatedSize is the size of the block m_p points to and m_dataSize   *)
(* no more than that, whichever allocations of reserveInternal, replace,   *)
(* insert and init were refused on the way.                                *)
CapacityIsReal ==
  /\ vector.cap = Len(vector.cells)
  /\ vector.size <= vector.cap

(* The places below m_dataSize hold a constructed element each, and none   *)
(* above does, after any sequence of calls that destroy, move and copy     *)
(* elements one range at a time, some of which failed.                     *)
ElementsLive ==
  Constructs(vector.kind) =>
    \A i \in DOMAIN vector.cells :
      IF i <= vector.size THEN vector.cells[i] \in Values
      ELSE vector.cells[i] \in {Raw, Blank}

(* No call of the vector destroys an object twice, builds one over another *)
(* that is alive, reads one that is dead, leaves the block, or abandons an *)
(* element with the block it stands in.                                    *)
NoMisuse == vector.faults = {}

(* The vector keeps the sequence its callers put in it and the cursor goes *)
(* where StoredSequence says, for calls that succeed and calls that fail.  *)
Stored == INSTANCE StoredSequence
            WITH items <- SubSeq(vector.cells, 1, vector.size), cursor <- offset,
                 Arrays <- Arguments
KeepsTheSequence == Stored!Spec

(* "Regions must be not overlapped" (IAllocationManager.h): erase moves    *)
(* the elements on the right with moveToRawNoOverlap.                      *)
MovesDoNotOverlap == "overlap" \notin vector.faults
=============================================================================

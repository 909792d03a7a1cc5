--------------------------- MODULE WalkerMethods ---------------------------
(***************************************************************************)
(* The methods of Walker<_T> of Walker.h, each as the vector and the       *)
(* cursor (m_offset) it leaves and the status it returns, from the         *)
(* vector's method it calls (a result r of VectorStorage).                 *)
(***************************************************************************)
EXTENDS VectorStorage

Walk(v, offset, status) == [vector |-> v, offset |-> offset, status |-> status]

(* Mutation: the position is not compared with the size.                   *)
ValidOffsetAny(at, v) == at

(* Where setValidOffset puts the cursor; a position before begin() is a    *)
(* huge one.                                                               *)
ValidOffset(at, v) == IF at \in 0 .. v.size THEN at ELSE v.size

(* pushBack, pushBackN, pushBackArithmeticValue, setSize: whatever the     *)
(* status, the cursor goes to the end.                                     *)
AtEnd(r) == Walk(r.vector, r.vector.size, r.status)

(* replace, insert, erase: the cursor goes to the position first, and past *)
(* what was written if the vector's method succeeds.                       *)
Positioned(v, r, at, written) ==
  Walk(r.vector, ValidOffset(at, v) + IF Succeeds(r) THEN written ELSE 0, r.status)

(* Both insert methods: written is what the vector has grown by.           *)
Inserted(v, r, at) == Positioned(v, r, at, r.vector.size - v.size)

reserveFromCurrentOffset(v, offset, n, grow, relocates) ==
  IF Plus(offset, n) < offset THEN Walk(v, offset, "ErrorOverflow")
  ELSE LET r == reserveInternal(v, Plus(offset, n), grow, relocates)
       IN  Walk(r.vector, offset, r.status)

readN(v, offset, n, null, fail) ==
  LET r == copyN(v, offset, n, null, fail)
  IN  Walk(r.vector, offset + IF Succeeds(r) THEN CopyLength(v, offset, n) ELSE 0, r.status)

readArithmeticValue(v, offset, n) ==
  IF n + offset <= v.size THEN Walk(v, offset + n, "NoError")
  ELSE Walk(v, offset, "ErrorOverflow")

(* seek, and operator[], whose position must be that of an element.        *)
seek(v, at) ==
  Walk(v, ValidOffset(at, v), IF at <= v.size THEN "NoError" ELSE "ErrorOverflow")

(* The init methods: a failure leaves the cursor of the elements that are  *)
(* gone.                                                                   *)
Initialised(r, offset, at) ==
  Walk(r.vector, IF Succeeds(r) THEN at ELSE offset, r.status)

(* clear, invalidate and release.                                          *)
Dropped(v) == Walk(v, 0, "NoError")
=============================================================================

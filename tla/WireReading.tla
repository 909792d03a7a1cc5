---------------------------- MODULE WireReading ----------------------------
(***************************************************************************)
(* What BodyProcessor reads from the body of a message: the status, the    *)
(* value and the place behind it.  s is the message, at the number of its  *)
(* bytes that are read already.                                            *)
(***************************************************************************)
EXTENDS WireFormat

Got(v, at) == [status |-> "NoError", value |-> v, at |-> at]
ReadFails(status) == [status |-> status, value |-> <<>>, at |-> 0]

readPrimitive(n, s, at, w) ==
  IF at + n > Len(s) THEN ReadFails("ErrorOverflow")
  ELSE Got(InMessage(SubSeq(s, at + 1, at + n), w), at + n)

(* castToBiggerType *)
Lengthened(n, b, signed) ==
  [i \in 1..n |-> IF i <= Len(b) THEN b[i] ELSE IF signed /\ Last(b) > 127 THEN 255 ELSE 0]

(* Mutation: the extremes of the type are taken for too big, too. *)
FitsStrictly(b, n, signed) ==
  /\ Lengthened(Len(b), SubSeq(b, 1, n), signed) = b
  /\ SubSeq(b, 1, n) # [i \in 1..n |-> IF signed /\ i = n THEN 127 ELSE 255]

(* castToSmallerType: the bytes that are left out say nothing. *)
Fits(b, n, signed) == Lengthened(Len(b), SubSeq(b, 1, n), signed) = b

Resized(r, n, signed) ==
  IF n > Len(r.value) THEN [r EXCEPT !.value = Lengthened(n, @, signed)]
  ELSE IF Fits(r.value, n, signed) THEN [r EXCEPT !.value = SubSeq(@, 1, n)]
  ELSE ReadFails("ErrorValueOverflow")

(* A number of the given size that is read into one of another size. *)
deserializeFromAnotherSize(size, n, signed, s, at, w) ==
  IF size \notin {1, 2, 4, 8} THEN ReadFails("ErrorInternal")
  ELSE IF size = n THEN readPrimitive(n, s, at, w)
  ELSE IF at + size > Len(s) THEN ReadFails("ErrorDataCorrupted")
  ELSE Resized(readPrimitive(size, s, at, w), n, signed)

(* The length of a container; those that are sent are small. *)
LengthFrom(r) ==
  IF r.status # "NoError" THEN r
  ELSE Got(r.value[1] + 256 * r.value[2] + 65536 * r.value[3], r.at)
deserializeSizeT(s, at, w) ==
  LengthFrom(deserializeFromAnotherSize(SizeOfSizeT(w), 8, FALSE, s, at, w))

-----------------------------------------------------------------------------

Joined(before, next) ==
  [status |-> next.status, value |-> Append(before.value, next.value), at |-> next.at]

RECURSIVE Read(_, _, _, _), ReadAll(_, _, _, _), ReadStruct(_, _, _, _),
          ReadAllOfSize(_, _, _, _, _, _)

(* The values from the next one on behind those read already, up to the first that fails. *)
ReadAll(types, before, s, w) ==
  IF before.status # "NoError" \/ Len(before.value) = Len(types) THEN before
  ELSE ReadAll(types, Joined(before, Read(types[Len(before.value) + 1], s, before.at, w)), s, w)

ReadEach(T, n, s, at, w) == ReadAll([i \in 1..n |-> T], Got(<<>>, at), s, w)

ReadAllOfSize(size, T, n, before, s, w) ==
  IF before.status # "NoError" \/ Len(before.value) = n THEN before
  ELSE ReadAllOfSize(size, T, n,
         Joined(before, deserializeFromAnotherSize(size, Numbers[T.of].size, Numbers[T.of].signed,
                                                   s, before.at, w)), s, w)

(* Mutation: what was read is not compared with what was asked for. *)
readRawDataOrLess(T, n, s, at, w) ==
  Got([i \in 1..n |-> ValueAt(T, s \o Zeros(n * SizeOf(T, w.platform)),
                              at + (i - 1) * SizeOf(T, w.platform), w.platform)],
      Min({at + n * SizeOf(T, w.platform), Len(s)}))

readRawData(T, n, s, at, w) ==
  IF at + n * SizeOf(T, w.platform) > Len(s) THEN ReadFails("ErrorOverflow")
  ELSE Got([i \in 1..n |-> ValueAt(T, s, at + (i - 1) * SizeOf(T, w.platform), w.platform)],
           at + n * SizeOf(T, w.platform))

AfterSize(r, T, n, s, w) ==
  IF r.status # "NoError" THEN r
  ELSE IF r.value[1] # Numbers[T.of].size THEN ReadAllOfSize(r.value[1], T, n, Got(<<>>, r.at), s, w)
  ELSE readRawData(T, n, s, r.at, w)

ReadArray(T, n, s, at, w) ==
  IF ~RawArray(T, w) THEN ReadEach(T, n, s, at, w)
  ELSE IF Prefixed(T, w) THEN AfterSize(readPrimitive(1, s, at, w), T, n, s, w)
  ELSE readRawData(T, n, s, at, w)

ReadNumber(T, s, at, w) ==
  IF Prefixed(T, w)
  THEN IF at + 1 > Len(s) THEN ReadFails("ErrorOverflow")
       ELSE deserializeFromAnotherSize(s[at + 1], Numbers[T.of].size, Numbers[T.of].signed,
                                       s, at + 1, w)
  ELSE readPrimitive(Numbers[T.of].size, s, at, w)

-----------------------------------------------------------------------------

ElementsAfter(r, T, s, w) == IF r.status # "NoError" THEN r ELSE ReadArray(T, r.value, s, r.at, w)

WithoutLast(r) == IF r.status # "NoError" THEN r ELSE [r EXCEPT !.value = Front(@)]
CharactersAfter(r, T, s, w) ==
  IF r.status # "NoError" THEN r ELSE WithoutLast(ReadArray(T, r.value + 1, s, r.at, w))

PairsAfter(r, T, s, w) == IF r.status # "NoError" THEN r ELSE ReadEach(T, r.value, s, r.at, w)

PointedTo(r) == IF r.status # "NoError" THEN r ELSE [r EXCEPT !.value = <<@>>]
ReadPointer(T, s, at, w) ==
  IF "allowUnmanagedPointers" \notin w.ctx.flags
  THEN ReadFails("ErrorNotSupportedSerializationSettingsForStruct")
  ELSE IF at + 1 > Len(s) THEN ReadFails("ErrorOverflow")
  ELSE IF s[at + 1] = 0 THEN Got(<<>>, at + 1)
  ELSE PointedTo(Read(T, s, at + 1, w))

Read(T, s, at, w) ==
  CASE IsNumber(T) -> ReadNumber(T, s, at, w)
    [] IsStruct(T) -> ReadStruct(T.of, s, at, w)
    [] T.kind = "array" -> ReadArray(T.of, T.n, s, at, w)
    [] T.kind = "vector" -> ElementsAfter(deserializeSizeT(s, at, w), T.of, s, w)
    [] T.kind = "string" -> CharactersAfter(deserializeSizeT(s, at, w), T.of, s, w)
    [] T.kind = "map" -> PairsAfter(deserializeSizeT(s, at, w), T.of, s, w)
    [] T.kind = "tuple" -> ReadAll(T.of, Got(<<>>, at), s, w)
    [] T.kind = "pointer" -> ReadPointer(T.of, s, at, w)

(* A member that is taken twice has the value of the last time. *)
AsMembers(members, r) ==
  IF r.status # "NoError" THEN r
  ELSE [r EXCEPT !.value = [n \in {m[1] : m \in Range(members)} |->
                              r.value[SelectLastInSeq(members, LAMBDA m : m[1] = n)]]]
ReadMembers(members, s, at, w) ==
  AsMembers(members, ReadAll([i \in DOMAIN members |-> members[i][2]], Got(<<>>, at), s, w))

(* A struct whose bytes are copied, and one that is passed over and stays as it is made. *)
Only(r) == IF r.status # "NoError" THEN r ELSE [r EXCEPT !.value = @[1]]
ReadUnaided(name, at, w) ==
  IF PassedOver(name, w)
  THEN Got(ValueAt(Of(name), Zeros(SizeOfOne(name, w.platform)), 0, w.platform), at)
  ELSE ReadFails("ErrorNotSupportedSerializationSettingsForStruct")

(* FromVersion: up the chain, the first struct of which is read. *)
ChainUp(name, versions) == [i \in DOMAIN versions |-> StructOfVersion(name, versions[i])] \o <<name>>

ConvertedUp(r, name, versions) ==
  IF r.status # "NoError" THEN r
  ELSE IF convertToUpperVersion(BuildFor(0), name, Head(Struct[name].private), versions)
  THEN [r EXCEPT !.value = ConvertedAlong(ChainUp(name, versions), @, 1)]
  ELSE ReadFails("ErrorNoSuchHandler")

ReadFirst(name, versions, s, at, w) ==
  ConvertedUp(ReadStruct(StructOfVersion(name, versions[1]), s, at, w), name, versions)

ReadOlder(name, s, at, w) ==
  IF Convertible(name, w)
  THEN ReadFirst(name, FromVersion(BuildFor(0), name, Head(Struct[name].private),
                                   TargetVersion(name, w)), s, at, w)
  ELSE ReadFails(WithoutConversion(name, w))

ReadStruct(name, s, at, w) ==
  IF OfOlderVersion(name, w) THEN ReadOlder(name, s, at, w)
  ELSE IF TaggedRaw(name, w) THEN Only(readRawData(Of(name), 1, s, at, w))
  ELSE IF Struct[name].functions THEN ReadMembers(Struct[name].members, s, at, w)
  ELSE ReadUnaided(name, at, w)
=============================================================================

----------------------------- MODULE WireFormat -----------------------------
(***************************************************************************)
(* What BodyProcessor writes into the body of a message: the status and    *)
(* the bytes of a value of each type.  Pointers that are checked for       *)
(* recursion are left to BodyProcessing.                                   *)
(*                                                                         *)
(* An end of an exchange is a record w of                                  *)
(*    ctx         its data context                                         *)
(*    bigEndianFormat, bitness32   the common flags of the message         *)
(*    platform    where the program runs                                   *)
(***************************************************************************)
EXTENDS DataContexts, StructMemory

CONSTANTS
    InitFrom(_, _, _)   \* what init of struct 1 makes of value 3 of struct 2

(* What a build knows of a struct, in the form of DataContexts. *)
LayoutOf(name, platform) ==
  [latest |-> Struct[name].interface,
   tag |-> IF Struct[name].tag \in {"always", "aligned"} /\ Memory[name][platform.align].align # 1
           THEN "none" ELSE Struct[name].tag,
   endiannessTolerant |-> SizeOfOne(name, platform) = 1]

BuildFor(interface) ==
  [interface |-> interface,
   private |-> [name \in DOMAIN Struct |-> Struct[name].private],
   layout |-> [name \in DOMAIN Struct |->
                 [p \in {Head(Struct[name].private)} |-> [latest |-> Struct[name].interface]]],
   forbidden |-> [name \in DOMAIN Struct |-> {}],
   mandatory |-> [name \in DOMAIN Struct |-> {}]]

(* The structs of the private versions, where there are conversions. *)
StructOfVersion(name, version) ==
  (<<name>> \o Struct[name].legacy)[SelectInSeq(Struct[name].private, LAMBDA p : p = version)]
HasConverter(name) == Len(Struct[name].private) = Len(Struct[name].legacy) + 1

SizesMayDiffer(w) == "sizeOfIntegersMayBeNotEqual" \in w.ctx.flags
endiannessNotMatch(w) == w.bigEndianFormat # w.platform.big

(* Mutation: one alignment is as good as another. *)
TaggedRawAnyAlignment(name, w) ==
  SimplyAssigned(LayoutOf(name, w.platform),
                 [w.ctx EXCEPT !.flags = @ \ {"alignmentMayBeNotEqual"}])

(* Whether the bytes of a struct are copied: serializeSimplyAssignable asks what arrays ask. *)
TaggedRaw(name, w) == SimplyAssigned(LayoutOf(name, w.platform), w.ctx)

(* Whether the elements of an array are copied. *)
RawArray(T, w) ==
  \/ IsNumber(T) /\ (~w.ctx.endiannessDifference \/ Numbers[T.of].size = 1)
  \/ IsStruct(T) /\ TaggedRaw(T.of, w)

Prefixed(T, w) == IsNumber(T) /\ ~Numbers[T.of].fixed /\ SizesMayDiffer(w)

(* The version that a struct has in the message. *)
TargetVersion(name, w) ==
  getBestCompatInterfaceVersion(BuildFor(0), name, Head(Struct[name].private), w.ctx.version)

OfOlderVersion(name, w) ==
  /\ Struct[name].serializable /\ Struct[name].functions /\ w.ctx.notMatch
  /\ TargetVersion(name, w) # Head(Struct[name].private)

(* The status of toOldStructIfNeed and fromOldStructIfNeed where nothing can be converted. *)
WithoutConversion(name, w) ==
  IF TargetVersion(name, w) = Undefined THEN "ErrorInternal" ELSE "ErrorNoSuchHandler"
Convertible(name, w) == TargetVersion(name, w) # Undefined /\ HasConverter(name)

RECURSIVE ConvertedAlong(_, _, _)
(* The value of the last struct of the chain that is made of v, of its struct i. *)
ConvertedAlong(chain, v, i) ==
  IF i = Len(chain) THEN v
  ELSE ConvertedAlong(chain, InitFrom(chain[i + 1], chain[i], v), i + 1)

-----------------------------------------------------------------------------

Bytes(b) == [status |-> "NoError", bytes |-> b]
WriteFails(status) == [status |-> status, bytes |-> <<>>]
AndThen(r, next) == [status |-> next.status, bytes |-> r.bytes \o next.bytes]

(* The bytes of a number in the message, or of one read from there, which is the same. *)
InMessage(b, w) ==
  IF endiannessNotMatch(w) THEN Reverse(InMemory(b, w.platform)) ELSE InMemory(b, w.platform)

(* Mutation: whatever is not a struct gets its size. *)
SizePrefixOfAny(T, w) == IF IsNumber(T) /\ SizesMayDiffer(w) THEN <<Numbers[T.of].size>> ELSE <<>>

SizePrefix(T, w) == IF Prefixed(T, w) THEN <<Numbers[T.of].size>> ELSE <<>>

SizeOfSizeT(w) == IF w.bitness32 THEN 4 ELSE 8
serializeSizeT(n, w) == Bytes(InMessage(BytesOf(SizeOfSizeT(w), n), w))

RECURSIVE Write(_, _, _), WriteAll(_, _, _, _, _), WriteStruct(_, _, _)

(* The values from i on behind what is written already, up to the first that fails. *)
WriteAll(types, values, i, before, w) ==
  IF i > Len(types) \/ before.status # "NoError" THEN before
  ELSE WriteAll(types, values, i + 1, AndThen(before, Write(types[i], values[i], w)), w)

WriteEach(T, vs, w) == WriteAll([i \in DOMAIN vs |-> T], vs, 1, Bytes(<<>>), w)

WriteArray(T, vs, w) ==
  IF RawArray(T, w)
  THEN Bytes(SizePrefix(T, w) \o FlattenSeq([i \in DOMAIN vs |-> Image(T, vs[i], w.platform)]))
  ELSE WriteEach(T, vs, w)

WritePointer(T, v, w) ==
  CASE "allowUnmanagedPointers" \notin w.ctx.flags ->
         WriteFails("ErrorNotSupportedSerializationSettingsForStruct")
    [] "allowUnmanagedPointers" \in w.ctx.flags /\ v = <<>> -> Bytes(<<0>>)
    [] OTHER -> AndThen(Bytes(<<1>>), Write(T, v[1], w))

WriteVector(T, v, w) == AndThen(serializeSizeT(Len(v), w), WriteArray(T, v, w))

(* The characters go with the zero at their end, which the length does not count. *)
WriteString(T, v, w) ==
  AndThen(serializeSizeT(Len(v), w), WriteArray(T, Append(v, Zeros(Numbers[T.of].size)), w))

WriteMap(T, v, w) == AndThen(serializeSizeT(Len(v), w), WriteEach(T, v, w))

Write(T, v, w) ==
  CASE IsNumber(T) -> Bytes(SizePrefix(T, w) \o InMessage(v, w))
    [] IsStruct(T) -> WriteStruct(T.of, v, w)
    [] T.kind = "array" -> WriteArray(T.of, v, w)
    [] T.kind = "vector" -> WriteVector(T.of, v, w)
    [] T.kind = "string" -> WriteString(T.of, v, w)
    [] T.kind = "map" -> WriteMap(T.of, v, w)
    [] T.kind = "tuple" -> WriteAll(T.of, v, 1, Bytes(<<>>), w)
    [] T.kind = "pointer" -> WritePointer(T.of, v, w)

WriteMembers(members, v, w) ==
  WriteAll([i \in DOMAIN members |-> members[i][2]], [i \in DOMAIN members |-> v[members[i][1]]],
           1, Bytes(<<>>), w)

(* Structs without functions: serializeSimplyAssignable leaves to others what nobody then does. *)
PassedOver(name, w) ==
  \/ Struct[name].interface > w.ctx.version
  \/ w.ctx.endiannessDifference /\ SizeOfOne(name, w.platform) # 1

WriteUnaided(name, w) ==
  IF PassedOver(name, w) THEN Bytes(<<>>)
  ELSE WriteFails("ErrorNotSupportedSerializationSettingsForStruct")

(* ToVersion: down the chain, the last struct of which is written. *)
ChainDown(name, versions) == <<name>> \o [i \in DOMAIN versions |-> StructOfVersion(name, versions[i])]
WriteLast(chain, v, w) == WriteStruct(Last(chain), ConvertedAlong(chain, v, 1), w)

WriteOlder(name, v, w) ==
  IF Convertible(name, w)
  THEN WriteLast(ChainDown(name, ToVersion(BuildFor(0), name, Head(Struct[name].private),
                                           TargetVersion(name, w))), v, w)
  ELSE WriteFails(WithoutConversion(name, w))

WriteStruct(name, v, w) ==
  IF OfOlderVersion(name, w) THEN WriteOlder(name, v, w)
  ELSE IF TaggedRaw(name, w) THEN Bytes(Image(Of(name), v, w.platform))
  ELSE IF Struct[name].functions THEN WriteMembers(Struct[name].members, v, w)
  ELSE WriteUnaided(name, w)
=============================================================================

---------------------------- MODULE DataContexts ----------------------------
(***************************************************************************)
(* The data context of a message, and what a build of a program knows of   *)
(* the structs it exchanges: csp_base/context, the data ContextProcessor   *)
(* and the static part of ISerializable.                                   *)
(*                                                                         *)
(* A struct T has private versions, listed from the latest to the origin,  *)
(* and for each of them a layout: its members, the interface version of    *)
(* the definition (that of whichever of its parts changed last) and its    *)
(* tag.  The layout of the latest version is the struct; the others are    *)
(* its legacy structs.  A build is a record                                *)
(*    interface   the version of the interface                             *)
(*    private     the private versions of each struct                      *)
(*    layout      the layouts of each struct, by version                   *)
(*    forbidden, mandatory   the effective data flags of each struct       *)
(***************************************************************************)
EXTENDS Integers, FiniteSets, SequencesExt

CONSTANTS
    Undefined       \* kInterfaceVersionUndefined, greater than any version

ASSUME UndefinedAssumption == Undefined \in Nat \ {0}

MemberKinds == {"number", "member", "array", "pointer"}

(* A member or an element of an array is a struct of the private version that the layout names. *)
Members == [name : STRING, kind : MemberKinds, type : STRING, version : Nat, n : Nat \ {0}]

DataFlags == {"alignmentMayBeNotEqual", "sizeOfIntegersMayBeNotEqual",
              "allowUnmanagedPointers", "checkRecursivePointers",
              "simplyAssignableTagsOptimizationsAreTurnedOff"}

Contexts == [version : Nat, flags : SUBSET DataFlags, notMatch : BOOLEAN,
             endiannessDifference : BOOLEAN]

NewContext == [version |-> Undefined, flags |-> {}, notMatch |-> FALSE,
               endiannessDifference |-> FALSE]

(* Data::clear: the common flags stay. *)
clear(ctx) == [NewContext EXCEPT !.endiannessDifference = ctx.endiannessDifference]

-----------------------------------------------------------------------------

getLatestPrivateVersion(b, T) == Head(b.private[T])
getOriginPrivateVersion(b, T) == Last(b.private[T])
getLatestInterfaceVersion(b, T) == b.layout[T][getLatestPrivateVersion(b, T)].latest

(* A legacy struct lists the private versions there were up to its own. *)
getPrivateVersions(b, T, version) ==
    SubSeq(b.private[T], SelectInSeq(b.private[T], LAMBDA p : p <= version), Len(b.private[T]))

(* What a build knows of a struct it knows of each part of it. *)
IsPart(b, m) ==
    /\ m.type \in DOMAIN b.private
    /\ m.kind # "pointer" => m.version \in ToSet(b.private[m.type])

(***************************************************************************)
(* What the definitions of the structs of a build cannot but be: private   *)
(* versions are listed downwards, an interface version is that of the last *)
(* change to a struct or a part of it, a struct consists of structs that   *)
(* existed when it was defined, and its latest definition of the latest    *)
(* definitions of these.                                                   *)
(***************************************************************************)
IsBuild(b) ==
    /\ b.interface \in Nat /\ b.interface < Undefined
    /\ \A T \in DOMAIN b.private :
        /\ b.private[T] \in Seq(Nat) \ {<<>>}
        /\ \A i, j \in DOMAIN b.private[T] : i < j => b.private[T][i] > b.private[T][j]
    /\ \A T \in DOMAIN b.private : \A version \in ToSet(b.private[T]) :
        LET layout == b.layout[T][version]
            parts == {m \in ToSet(layout.members) : m.kind # "number"}
        IN  /\ layout.members \in Seq(Members)
            /\ layout.latest \in Nat /\ version <= layout.latest
            /\ \A m \in parts : IsPart(b, m) /\ getOriginPrivateVersion(b, m.type) <= version
            /\ version = getLatestPrivateVersion(b, T) => \A m \in parts :
                /\ m.kind # "pointer" => m.version = getLatestPrivateVersion(b, m.type)
                /\ getLatestInterfaceVersion(b, m.type) <= layout.latest

Names(b, T, version) == {m.name : m \in ToSet(b.layout[T][version].members)}

(* VersionConverter::getBestCompatInterfaceVersion of the struct T of a version *)
getBestCompatInterfaceVersion(b, T, version, compat) ==
    LET versions == getPrivateVersions(b, T, version)
        first == SelectInSeq(versions, LAMBDA p : p <= compat)
    IN  IF first = 0 THEN Undefined ELSE versions[first]

testDataFlagsCompatibility(b, T, flags) ==
    flags \cap b.forbidden[T] = {} /\ b.mandatory[T] \subseteq flags

(***************************************************************************)
(* Whether a struct of this layout goes into the message as the bytes it   *)
(* has in memory: the test of serializeSimplyAssignable, and of serialize  *)
(* and deserialize of arrays.                                              *)
(***************************************************************************)
SimplyAssigned(layout, ctx) ==
    LET set(flag) == flag \in ctx.flags
    IN  /\ ~ctx.endiannessDifference \/ layout.endiannessTolerant
        /\ ~set("simplyAssignableTagsOptimizationsAreTurnedOff")
        /\ layout.latest <= ctx.version
        /\ \/ layout.tag = "always"
           \/ layout.tag = "fixed" /\ ~set("alignmentMayBeNotEqual")
           \/ layout.tag = "aligned" /\ ~set("sizeOfIntegersMayBeNotEqual")
           \/ /\ layout.tag = "simply"
              /\ ~set("alignmentMayBeNotEqual") /\ ~set("sizeOfIntegersMayBeNotEqual")

-----------------------------------------------------------------------------

(* Mutation: the versions of the struct itself, and not of its parts, are compared. *)
RaiseNotMatchPrivate(b, T, ctx) ==
    [ctx EXCEPT !.notMatch = @ \/ ctx.version < getLatestPrivateVersion(b, T)]

(* The flag is only ever raised here: it stays for the context's next message. *)
RaiseNotMatch(b, T, ctx) ==
    [ctx EXCEPT !.notMatch = @ \/ ctx.version < getLatestInterfaceVersion(b, T)]

PointerFlagsAgree(ctx) ==
    "checkRecursivePointers" \in ctx.flags => "allowUnmanagedPointers" \in ctx.flags

(* ISerializable::serialize up to the body: the context it goes on with, and whether it does. *)
SerializeContext(b, T, given) ==
    LET ctx == IF given.version = Undefined
               THEN [given EXCEPT !.version = getLatestInterfaceVersion(b, T)]
               ELSE given
        supported == ctx.version \in getOriginPrivateVersion(b, T)..b.interface
    IN  [ctx |-> IF supported THEN RaiseNotMatch(b, T, ctx) ELSE ctx,
         accepted |-> /\ supported
                      /\ PointerFlagsAgree(ctx)
                      /\ testDataFlagsCompatibility(b, T, ctx.flags)]

(***************************************************************************)
(* ISerializable::deserialize up to the body.  The version the context has *)
(* before is the least the caller takes; the message's own then replaces   *)
(* it.  added says whether there is a container for the new pointers.      *)
(***************************************************************************)
DeserializeContext(b, T, given, version, flags, difference, added) ==
    LET least == IF given.version = Undefined THEN getOriginPrivateVersion(b, T)
                 ELSE given.version
        ctx == [given EXCEPT !.version = version, !.flags = flags,
                             !.endiannessDifference = difference]
        supported == version \in least..b.interface
    IN  [ctx |-> IF supported THEN RaiseNotMatch(b, T, ctx) ELSE ctx,
         accepted |-> /\ supported
                      /\ testDataFlagsCompatibility(b, T, flags)
                      /\ "allowUnmanagedPointers" \in flags => added
                      /\ PointerFlagsAgree(ctx)]

-----------------------------------------------------------------------------

(***************************************************************************)
(* Chains of conversions.  The generated toOldStruct lists the legacy      *)
(* structs downwards, fromOldStruct upwards.                               *)
(***************************************************************************)

(* Mutation: the versions between are skipped. *)
ToVersionDirect(b, T, version, target) ==
    SelectSeq(Tail(getPrivateVersions(b, T, version)), LAMBDA p : p = target)

(* ToVersion: the versions that are built, the last of which is serialized *)
ToVersion(b, T, version, target) ==
    LET legacy == Tail(getPrivateVersions(b, T, version))
        last == SelectInSeq(legacy, LAMBDA p : ~(p > target))
    IN  SubSeq(legacy, 1, last)

(* FromVersion::convert: skips the versions older than the serialized one *)
FromVersion(b, T, version, target) ==
    LET legacy == Reverse(Tail(getPrivateVersions(b, T, version)))
        skips(i) == \A k \in 2..i : legacy[k] <= target
        first == CHOOSE i \in 1..Len(legacy) :
                    skips(i) /\ (i < Len(legacy) => ~skips(i + 1))
    IN  SubSeq(legacy, first, Len(legacy))

(* Each legacy struct has an init from its neighbours, and so has the struct itself. *)
InitableBySpecialArgs(b, T, to, from) ==
    \E i \in 1..Len(b.private[T]) - 1 :
        {b.private[T][i], b.private[T][i + 1]} = {to, from}

(***************************************************************************)
(* convertToUpperVersion: at each step but the last the code asks whether  *)
(* the struct at the end of the chain, and not the next one, has an init   *)
(* from the next one.                                                      *)
(***************************************************************************)
convertToUpperVersion(b, T, version, chain) ==
    IF Len(chain) = 1
    THEN InitableBySpecialArgs(b, T, version, chain[1])
    ELSE \A i \in 2..Len(chain) : InitableBySpecialArgs(b, T, version, chain[i])
=============================================================================

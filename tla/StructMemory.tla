---------------------------- MODULE StructMemory ----------------------------
(***************************************************************************)
(* Values in the memory of a platform [big |-> is it big-endian,           *)
(* align |-> its greatest alignment].                                      *)
(*                                                                         *)
(* A number is the sequence of its bytes, the least significant first; an  *)
(* array, vector, string, map or tuple a sequence; a pointer a sequence of *)
(* at most one value; a struct a function of its members' names.           *)
(***************************************************************************)
EXTENDS StructLayout

CONSTANTS
    Struct,     \* the descriptions of structs, by name
    Memory      \* their layouts, by name and alignment

IsStruct(T) == T.kind = "one" /\ T.of \in DOMAIN Struct

-----------------------------------------------------------------------------

SizeOfOne(name, platform) ==
  IF name \in DOMAIN Numbers THEN Numbers[name].size ELSE Memory[name][platform.align].size
SizeOf(T, platform) ==
  IF T.kind = "array" THEN T.n * SizeOfOne(T.of.of, platform) ELSE SizeOfOne(T.of, platform)

Zeros(n) == [i \in 1..n |-> 0]
InMemory(b, platform) == IF platform.big THEN Reverse(b) ELSE b

RECURSIVE Image(_, _, _), ValueAt(_, _, _, _)

ImageOfStruct(name, memory, v, platform) ==
  FlattenSeq([i \in DOMAIN memory.before |->
                Zeros(memory.before[i])
                  \o Image(Struct[name].members[i][2], v[Struct[name].members[i][1]], platform)])
    \o Zeros(memory.behind)

(* The bytes of a value in memory; those of the padding are zeros. *)
Image(T, v, platform) ==
  CASE IsNumber(T) -> InMemory(v, platform)
    [] IsStruct(T) -> ImageOfStruct(T.of, Memory[T.of][platform.align], v, platform)
    [] T.kind = "array" -> FlattenSeq([i \in DOMAIN v |-> Image(T.of, v[i], platform)])

StructAt(memory, s, at, platform) ==
  [n \in DOMAIN memory.type |-> ValueAt(memory.type[n], s, at + memory.offset[n], platform)]

(* The value whose bytes in memory stand in s behind the place at. *)
ValueAt(T, s, at, platform) ==
  CASE IsNumber(T) -> InMemory(SubSeq(s, at + 1, at + Numbers[T.of].size), platform)
    [] IsStruct(T) -> StructAt(Memory[T.of][platform.align], s, at, platform)
    [] T.kind = "array" ->
         [i \in 1..T.n |-> ValueAt(T.of, s, at + (i - 1) * SizeOfOne(T.of.of, platform), platform)]

RECURSIVE Value(_, _)
(* The value that a description writes with integers. *)
Value(T, literal) ==
  CASE IsNumber(T) ->
         IF Numbers[T.of].wide THEN literal ELSE BytesOf(Numbers[T.of].size, literal)
    [] IsStruct(T) ->
         [n \in DOMAIN literal |->
            Value(Struct[T.of].members[IndexOf(Struct[T.of], n)][2], literal[n])]
    [] T.kind = "tuple" -> [i \in DOMAIN literal |-> Value(T.of[i], literal[i])]
    [] OTHER -> [i \in DOMAIN literal |-> Value(T.of, literal[i])]
=============================================================================

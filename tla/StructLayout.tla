---------------------------- MODULE StructLayout ----------------------------
(***************************************************************************)
(* Where a compiler puts the members of structs: each at the next multiple *)
(* of its alignment, which is that of its type but at most align, and 1 in *)
(* a packed struct.  structs are the descriptions, by name.                *)
(***************************************************************************)
EXTENDS SerializableStructs, SequencesExt, FiniteSetsExt

IsNumber(T) == T.kind = "one" /\ T.of \in DOMAIN Numbers

IndexOf(struct, n) == SelectInSeq(struct.members, LAMBDA m : m[1] = n)

RoundUp(n, align) == ((n + align - 1) \div align) * align

RECURSIVE AlignOf(_, _, _), SizeIn(_, _, _), Places(_, _, _, _)

AlignOfMembers(members, structs, align) == Max({1} \cup {AlignOf(m[2], structs, align) : m \in Range(members)})

AlignOf(T, structs, align) ==
  CASE IsNumber(T) -> Min({Numbers[T.of].size, align})
    [] T.kind = "one" /\ ~IsNumber(T) ->
         IF structs[T.of].packed THEN 1 ELSE AlignOfMembers(structs[T.of].members, structs, align)
    [] T.kind = "array" -> AlignOf(T.of, structs, align)
    [] OTHER -> align

(* Where a member of type T begins and ends that follows others that end at n. *)
PlaceAt(at, T, structs, align) == [at |-> at, end |-> at + SizeIn(T, structs, align)]
Place(n, T, packed, structs, align) ==
  PlaceAt(IF packed THEN n ELSE RoundUp(n, AlignOf(T, structs, align)), T, structs, align)

EndOf(placed) == IF placed = <<>> THEN 0 ELSE Last(placed).end

(* placed are the places of the first members. *)
Places(struct, placed, structs, align) ==
  IF Len(placed) = Len(struct.members) THEN placed
  ELSE Places(struct,
              Append(placed, Place(EndOf(placed), struct.members[Len(placed) + 1][2], struct.packed,
                                   structs, align)),
              structs, align)

(* An empty struct takes a byte.  Of vectors and the like it matters that they take more. *)
SizeIn(T, structs, align) ==
  CASE IsNumber(T) -> Numbers[T.of].size
    [] T.kind = "one" /\ ~IsNumber(T) ->
         RoundUp(Max({1, EndOf(Places(structs[T.of], <<>>, structs, align))}), AlignOf(T, structs, align))
    [] T.kind = "array" -> T.n * SizeIn(T.of, structs, align)
    [] OTHER -> 8

(* What is known of a struct: where its members stand, and the padding between and behind them. *)
Laid(struct, placed, size, align) ==
  [size |-> size, align |-> align,
   offset |-> [n \in {m[1] : m \in Range(struct.members)} |-> placed[IndexOf(struct, n)].at],
   type |-> [n \in {m[1] : m \in Range(struct.members)} |-> struct.members[IndexOf(struct, n)][2]],
   before |-> [i \in DOMAIN placed |-> placed[i].at - EndOf(SubSeq(placed, 1, i - 1))],
   behind |-> size - EndOf(placed)]

LayoutsOf(structs, alignments) ==
  [name \in DOMAIN structs |->
     [align \in alignments |->
        Laid(structs[name], Places(structs[name], <<>>, structs, align),
             SizeIn(Of(name), structs, align), AlignOf(Of(name), structs, align))]]
=============================================================================

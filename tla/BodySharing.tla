---------------------------- MODULE BodySharing ----------------------------
(***************************************************************************)
(* That a message arrives as it was sent, and shared objects stay shared:  *)
(* what this needs of the structs and of the writer's pointers, a grammar  *)
(* of the tokens that says of each which place of the writer it tells of,  *)
(* and what the reader has made of the tokens before it.                   *)
(***************************************************************************)
EXTENDS BodyReading

-----------------------------------------------------------------------------
(* What the structs of a build must be like.                               *)

(* The version of a struct in a message, if the sender's is the latest     *)
VersionAt(b, T, c) ==
    getBestCompatInterfaceVersion(b, T, getLatestPrivateVersion(b, T), c)

MessageMembers(b, T, c) == b.layout[T][VersionAt(b, T, c)].members

(* The members that a T of a version has in common with all its versions   *)
(* down to that of the message                                             *)
HandedOn(b, T, version, c) ==
    {name \in Names(b, T, version) :
        \A v \in ToSet(b.private[T]) :
            getBestCompatInterfaceVersion(b, T, version, c) <= v /\ v <= version =>
                name \in Names(b, T, v)}

Lasting(b, T, c) == HandedOn(b, T, getLatestPrivateVersion(b, T), c)

(* A member that has the name of another version's is the same member.     *)
SameMember(m, k) == m.kind = k.kind /\ m.type = k.type /\ m.n = k.n

KeepsMembers(b, T) ==
    \A v, u \in ToSet(b.private[T]) :
        \A m \in ToSet(b.layout[T][v].members), k \in ToSet(b.layout[T][u].members) :
            m.name = k.name => SameMember(m, k) /\ (v = u => m = k)

(* Only an array is of several, and a struct that may go into a message as *)
(* bytes is one of numbers, which is how the model has them.  An array is  *)
(* not the first member: it has the address of the struct, and its first   *)
(* element would be numbered in place of that.                             *)
PlainLayout(layout) ==
    /\ \A m \in ToSet(layout.members) :
           /\ m.kind # "array" => m.n = 1
           /\ layout.tag # "none" => m.kind = "number"
    /\ layout.members # <<>> /\ layout.members[1].kind # "array"

(* A part of an old version has lost no member since, that it had then.    *)
PartsAsLatest(b, T, c) ==
    \A m \in ToSet(MessageMembers(b, T, c)) :
        m.kind \in {"member", "array"} =>
            /\ getBestCompatInterfaceVersion(b, m.type, m.version, c) = VersionAt(b, m.type, c)
            /\ HandedOn(b, m.type, m.version, c) = Lasting(b, m.type, c)

PlainStructs ==
    \A talk \in Pairs : \A side \in {1, 2} :
        LET b == Builds[talk[side]]
        IN  \A T \in DOMAIN b.private :
            /\ KeepsMembers(b, T)
            /\ \A v \in ToSet(b.private[T]) : PlainLayout(b.layout[T][v])
            /\ \A c \in 0 .. b.interface :
                   getOriginPrivateVersion(b, T) <= c => PartsAsLatest(b, T, c)

(* A build whose structs are plain for a message of version c              *)
Plain(b, c) ==
    /\ IsBuild(b) /\ c \in Nat
    /\ \A T \in DOMAIN b.private :
        /\ KeepsMembers(b, T)
        /\ \A v \in ToSet(b.private[T]) : PlainLayout(b.layout[T][v])
        /\ getOriginPrivateVersion(b, T) <= c => PartsAsLatest(b, T, c)

(* A struct that a message of version c can hold                           *)
Fits(b, T, c) == T \in DOMAIN b.private /\ getOriginPrivateVersion(b, T) <= c

-----------------------------------------------------------------------------
(* What the writer's pointers must be like.                                *)

(* The types of places: those of the parts of a struct, and of the objects *)
(* that its pointers lead to, follow from its own.                         *)
TypedParts(b, g, types, place) ==
    \A v \in ToSet(b.private[types[place]]) :
        \A m \in ToSet(b.layout[types[place]][v].members) :
            LET target == At(g, Part(place, m.name, 1))
                is(p) == p \in DOMAIN types /\ types[p] = m.type
            IN  /\ m.kind \in {"member", "array"} =>
                       \A j \in 1 .. m.n : is(Part(place, m.name, j))
                /\ m.kind = "pointer" /\ target # Null => is(target)

TypedBy(b, g, types) ==
    /\ Root \in DOMAIN types /\ types[Root] = RootType
    /\ \A place \in DOMAIN types :
        IsPlace(place) /\ types[place] \in DOMAIN b.private /\ TypedParts(b, g, types, place)

(* There are not infinitely many pointers.  They lead to objects, and not  *)
(* into them, and not to the root, which the code does not number.  Every  *)
(* object is of one type.                                                  *)
PlainGraph ==
    /\ IsFiniteSet(DOMAIN graph)
    /\ \A slot \in DOMAIN graph : Len(graph[slot]) = 1 /\ graph[slot] # Root
    /\ \E types : TypedBy(writer, graph, types)

-----------------------------------------------------------------------------
(* The grammar.  A symbol is what an item comes to in the message, and the *)
(* place of the writer that it is about.                                   *)

NumberAt(from, name) == [do |-> "number", from |-> from, name |-> name]
PointerAt(from, name) == [do |-> "pointer", from |-> from, name |-> name]
StructAt(from) == [do |-> "struct", from |-> from]

MemberPlaces(m, from) ==
    CASE m.kind = "number" -> <<NumberAt(from, m.name)>>
      [] m.kind = "pointer" -> <<PointerAt(from, m.name)>>
      [] m.kind = "member" -> <<StructAt(Part(from, m.name, 1))>>
      [] m.kind = "array" -> [j \in 1 .. m.n |-> StructAt(Part(from, m.name, j))]

(* Where a place comes from, if it is known where each object does         *)
Sent(origin, place) == origin[place[1]] \o Tail(place)

(* The writer's objects come from themselves.                              *)
Itself == [object \in Objects |-> <<object>>]

ItemPlaces(origin, item) ==
    CASE item.do = "struct" -> <<StructAt(Sent(origin, item.from))>>
      [] item.do \in MemberKinds -> MemberPlaces(item.member, Sent(origin, item.from))
      [] OTHER -> <<>>

Places(origin, items) ==
    FlattenSeq([i \in 1 .. Len(items) |-> ItemPlaces(origin, items[i])])

(* What was sent: the writer's build, context and pointers, and their types. *)
Letter(types) == [build |-> writer, ctx |-> sctx, graph |-> graph, types |-> types]

Sends(letter, from, name) ==
    name \in Lasting(letter.build, letter.types[from], letter.ctx.version)
NumberSent(letter, from, name) ==
    IF Sends(letter, from, name) THEN Part(from, name, 1) ELSE Null
PointerSent(letter, from, name) ==
    IF Sends(letter, from, name) THEN At(letter.graph, Part(from, name, 1)) ELSE Null

LayoutAt(letter, from) ==
    letter.build.layout[letter.types[from]]
        [VersionAt(letter.build, letter.types[from], letter.ctx.version)]

PlacesAt(letter, from) ==
    LET members == LayoutAt(letter, from).members
    IN  FlattenSeq([i \in 1 .. Len(members) |-> MemberPlaces(members[i], from)])

(* A tracing has symbols to do, has come to a place in the tokens, and has *)
(* met objects at offsets.                                                 *)
Tracing(todo, at, numbered) == [todo |-> todo, at |-> at, numbered |-> numbered]

IsRecursive(letter) == "checkRecursivePointers" \in letter.ctx.flags

(* A prefix tells of no object, of a new one, or of one at an offset.      *)
TellsOf(letter, numbered, prefix, p) ==
    \/ prefix = 0 /\ p = Null
    \/ prefix = 1 /\ p # Null /\ (IsRecursive(letter) => \A e \in numbered : e[2] # p)
    \/ prefix > 1 /\ p # Null /\ <<prefix, p>> \in numbered

Tells(letter, tokens, x) ==
    LET next == Head(x.todo)
        token == tokens[x.at + 1]
        is(kind) == x.at \in 0 .. Len(tokens) - 1 /\ token[1] = kind
    IN  CASE next.do = "number" ->
                 is("number") /\ token[2] = NumberSent(letter, next.from, next.name)
          [] next.do = "pointer" ->
                 /\ is(Prefix(letter.ctx))
                 /\ TellsOf(letter, x.numbered, token[2],
                            PointerSent(letter, next.from, next.name))
          [] OTHER ->
                 SimplyAssigned(LayoutAt(letter, next.from), letter.ctx) =>
                     /\ is("bytes")
                     /\ \A name \in DOMAIN token[2] :
                            token[2][name] = NumberSent(letter, next.from, name)

Traced(letter, tokens, x) ==
    LET next == Head(x.todo)
        rest == Tail(x.todo)
        target == PointerSent(letter, next.from, next.name)
        new == tokens[x.at + 1][2] = 1
    IN  CASE next.do = "number" -> Tracing(rest, x.at + 1, x.numbered)
          [] next.do = "pointer" ->
                 Tracing(IF new THEN <<StructAt(target)>> \o rest ELSE rest, x.at + 1,
                         x.numbered \cup
                            IF new /\ IsRecursive(letter) THEN {<<x.at + 1, target>>} ELSE {})
          [] OTHER ->
                 IF SimplyAssigned(LayoutAt(letter, next.from), letter.ctx)
                 THEN Tracing(rest, x.at + 1, x.numbered)
                 ELSE Tracing(PlacesAt(letter, next.from) \o rest, x.at, x.numbered)

Followed(letter, tokens, R) ==
    \A x \in R : x.todo # <<>> /\ Tells(letter, tokens, x) => Traced(letter, tokens, x) \in R

(* One tracing leads to another: it cannot be left without coming there.   *)
Traces(letter, tokens, x, y) ==
    \A R : x \in R /\ Followed(letter, tokens, R) => y \in R

-----------------------------------------------------------------------------
(* The writer.                                                             *)

Seen == {<<pointersMap[p], p>> : p \in {q \in DOMAIN pointersMap : Len(q) = 1}}

FromRoot == Tracing(<<StructAt(Root)>>, Len(Header), {})

CanHold(b, T) == T \in DOMAIN b.private /\ getOriginPrivateVersion(b, T) <= sctx.version

(* A struct goes into the message as the version it has there, with the    *)
(* members that last till there.                                           *)
StructSends(types, item) ==
    /\ item.from \in DOMAIN types /\ types[item.from] = item.type
    /\ getBestCompatInterfaceVersion(writer, item.type, item.version, sctx.version)
           = VersionAt(writer, item.type, sctx.version)
    /\ item.kept \subseteq Names(writer, item.type, item.version)
    /\ item.kept \cap HandedOn(writer, item.type, item.version, sctx.version)
           = Lasting(writer, item.type, sctx.version)

MemberSends(types, item) ==
    LET T == types[item.from]
    IN  /\ item.from \in DOMAIN types /\ CanHold(writer, T)
        /\ item.member \in ToSet(MessageMembers(writer, T, sctx.version))
        /\ item.member.name \in item.kept <=>
               item.member.name \in Lasting(writer, T, sctx.version)

ItemSends(types, item) ==
    /\ item.do = "struct" => StructSends(types, item)
    /\ item.do \in MemberKinds => MemberSends(types, item)
    /\ item.do = "element" => Len(item.at) > 1

(* What was written tells of the places of the writer one by one.          *)
WrittenAsTold(types) ==
    phase \in {"write", "written"} =>
        /\ Traces(Letter(types), out, FromRoot,
                  Tracing(Places(Itself, agenda), Len(out), Seen))
        /\ \A item \in Elements(agenda) : ItemSends(types, item)

-----------------------------------------------------------------------------
(* The reader.                                                             *)

(* Objects that are there for a while, and those that are there to stay    *)
Passing == dead \cup Temporaries
Staying == (0 .. made) \ Passing

IsTemporary(place) == Len(place) = 1 /\ place[1] \in Passing

TypeOf(types, origin, place) == types[Sent(origin, place)]

(* A place that is that of a struct the writer has                         *)
Stands(types, origin, place) ==
    /\ IsPlace(place) /\ place[1] \in (0 .. made) \ dead
    /\ Sent(origin, place) \in DOMAIN types
    /\ CanHold(reader, TypeOf(types, origin, place))

StructReads(types, origin, item) ==
    LET T == TypeOf(types, origin, item.at)
    IN  /\ T = item.type /\ item.from = item.at
        /\ getBestCompatInterfaceVersion(reader, T, item.version, sctx.version)
               = VersionAt(reader, T, sctx.version)
        /\ \/ HandedOn(reader, T, item.version, sctx.version) = Lasting(reader, T, sctx.version)
           \/ IsTemporary(item.at) /\ item.version = VersionAt(reader, T, sctx.version)

MemberReads(types, origin, item) ==
    LET T == TypeOf(types, origin, item.at)
    IN  /\ item.from = item.at
        /\ item.member \in ToSet(MessageMembers(reader, T, sctx.version))
        /\ item.member.name \in Lasting(reader, T, sctx.version) \/ IsTemporary(item.at)

(* A temporary holds what its struct becomes.                              *)
ConvertReads(types, origin, item) ==
    LET T == TypeOf(types, origin, item.at)
    IN  /\ T = item.type
        /\ item.temporary[1] \in (1 .. made) \ dead
        /\ origin[item.temporary[1]] = Sent(origin, item.at)
        /\ Handed(reader, T, Append(item.chain, item.version))
               = Lasting(reader, T, sctx.version)

ItemReads(types, origin, item) ==
    /\ item.do = "struct" =>
           Stands(types, origin, item.at) /\ StructReads(types, origin, item)
    /\ item.do \in MemberKinds =>
           Stands(types, origin, item.at) /\ MemberReads(types, origin, item)
    /\ item.do = "convert" =>
           Stands(types, origin, item.at) /\ ConvertReads(types, origin, item)

(* Nothing is read into a temporary after it is converted.                 *)
InTheirTime ==
    \A i, j \in 1 .. Len(agenda) : i <= j /\ agenda[i].do = "convert" =>
        /\ agenda[j].at[1] # agenda[i].temporary[1]
        /\ i < j /\ agenda[j].do = "convert" => agenda[j].temporary # agenda[i].temporary

(* Every object comes from a place; those that stay, from an object.       *)
Origins(origin) ==
    /\ DOMAIN origin = 0 .. made /\ origin[0] = Root
    /\ 0 \in Staying
    /\ \A k \in 0 .. made : IsPlace(origin[k])
    /\ \A k \in Staying : Len(origin[k]) = 1

(* The value of a slot is what the token told.                             *)
HoldsAsTold(types, origin, q, m, value) ==
    LET letter == Letter(types)
        target == PointerSent(letter, Sent(origin, q), m.name)
    IN  /\ m.kind = "number" => value = NumberSent(letter, Sent(origin, q), m.name)
        /\ m.kind = "pointer" =>
               IF target = Null THEN value = Null
               ELSE \E k \in Staying : value = <<k>> /\ origin[k] = target

SlotIs(types, origin, slot, q, m, value) ==
    LET T == TypeOf(types, origin, q)
    IN  /\ slot = Part(q, m.name, 1)
        /\ Stands(types, origin, q)
        /\ m \in ToSet(MessageMembers(reader, T, sctx.version))
        /\ m.kind \in {"number", "pointer"}
        /\ m.name \in Lasting(reader, T, sctx.version) \/ IsTemporary(q)
        /\ HoldsAsTold(types, origin, q, m, value)

MemoryAsTold(types, origin) ==
    \A slot \in DOMAIN memory : \E q, m : SlotIs(types, origin, slot, q, m, memory[slot])

(* What is still to come of a struct, or of a member of a struct           *)
StructComes(place) ==
    \E item \in Elements(agenda) : item.do \in {"struct", "convert"} /\ item.at = place

MemberComes(q, m) ==
    \E item \in Elements(agenda) :
        item.do \in MemberKinds /\ item.at = q /\ item.member = m

(* opened are the structs whose members were read, or are about to be.     *)
IsThere(opened, place) == place \in opened \/ StructComes(place)

MemberIsThere(opened, q, m) ==
    \/ MemberComes(q, m)
    \/ m.kind \in {"number", "pointer"} /\ Part(q, m.name, 1) \in DOMAIN memory
    \/ m.kind \in {"member", "array"} /\ \A j \in 1 .. m.n : IsThere(opened, Part(q, m.name, j))

IsOpened(types, origin, opened, q) ==
    LET T == TypeOf(types, origin, q)
    IN  /\ Stands(types, origin, q)
        /\ \A m \in ToSet(MessageMembers(reader, T, sctx.version)) :
               m.name \in Lasting(reader, T, sctx.version) => MemberIsThere(opened, q, m)

AllIsThere(types, origin, opened) ==
    /\ \A q \in opened : IsOpened(types, origin, opened, q)
    /\ \A k \in Staying : IsThere(opened, <<k>>)
    /\ \A item \in Elements(agenda) : item.do = "convert" => IsThere(opened, item.temporary)

(* The reader's numbers of objects are the writer's.                       *)
NumberedAsTold(origin, numbered) ==
    /\ \A e \in numbered :
        /\ e[1] \in 2 .. tell /\ e[1] \in DOMAIN objectsMap
        /\ \E k \in Staying : objectsMap[e[1]] = <<k>> /\ origin[k] = e[2]
        /\ e[1] = tell => agenda # <<>> /\ Head(agenda).do \notin {"array", "element", "convert"}
    /\ "checkRecursivePointers" \in sctx.flags =>
        /\ \A k \in Staying \ {0} : \E e \in numbered : e[2] = origin[k]
        /\ \A k, l \in Staying : origin[k] = origin[l] => k = l

ReaderKnows(types, origin, numbered, opened) ==
    /\ Origins(origin) /\ InTheirTime
    /\ Traces(Letter(types), out, Tracing(Places(origin, agenda), tell, numbered),
              Tracing(<<>>, Len(out), Seen))
    /\ \A item \in Elements(agenda) : ItemReads(types, origin, item)
    /\ MemoryAsTold(types, origin)
    /\ AllIsThere(types, origin, opened)
    /\ NumberedAsTold(origin, numbered)

ReadAsTold(types) ==
    phase = "read" =>
        \E origin, numbered, opened : ReaderKnows(types, origin, numbered, opened)

-----------------------------------------------------------------------------
(* The end of a message.                                                   *)

(* A slot holds what was sent.                                             *)
HoldsAtLast(types, origin, opened, q, m, value) ==
    LET letter == Letter(types)
        target == PointerSent(letter, Sent(origin, q), m.name)
    IN  /\ m.kind = "number" => value = NumberSent(letter, Sent(origin, q), m.name)
        /\ m.kind = "pointer" =>
               IF target = Null THEN value = Null
               ELSE \E k : <<k>> \in opened /\ value = <<k>> /\ origin[k] = target

(* A struct that was opened has the members that last, and no others.      *)
ArrivedAt(types, origin, opened, c, q, T) ==
    /\ IsPlace(q) /\ IsPlace(origin[q[1]]) /\ Len(origin[q[1]]) = 1
    /\ Sent(origin, q) \in DOMAIN types /\ T = types[Sent(origin, q)] /\ Fits(reader, T, c)
    /\ \A m \in ToSet(MessageMembers(reader, T, c)) :
        /\ m.kind \in {"number", "pointer"} /\ m.name \in Lasting(reader, T, c) =>
               /\ Part(q, m.name, 1) \in DOMAIN memory
               /\ HoldsAtLast(types, origin, opened, q, m, memory[Part(q, m.name, 1)])
        /\ m.kind \in {"member", "array"} /\ m.name \in Lasting(reader, T, c) =>
               \A j \in 1 .. m.n : Part(q, m.name, j) \in opened
    /\ \A name : Part(q, name, 1) \in DOMAIN memory => name \in Lasting(reader, T, c)

Arrived(types, origin, opened, c) ==
    /\ c = sctx.version /\ TypedBy(writer, graph, types)
    /\ Plain(writer, c) /\ Plain(reader, c) /\ SameStructs(writer, reader, c)
    /\ origin[0] = Root /\ <<0>> \in opened
    /\ \A q \in opened : ArrivedAt(types, origin, opened, c, q, types[Sent(origin, q)])
    /\ "checkRecursivePointers" \in sctx.flags =>
           \A k, l : <<k>> \in opened /\ <<l>> \in opened /\ origin[k] = origin[l] => k = l

SharingInv ==
    /\ ReadingInv
    /\ PlainGraph =>
        /\ \A types : TypedBy(writer, graph, types) => WrittenAsTold(types) /\ ReadAsTold(types)
        /\ status = "received" => \E types, origin, opened, c : Arrived(types, origin, opened, c)
=============================================================================

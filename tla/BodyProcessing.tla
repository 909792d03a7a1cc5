--------------------------- MODULE BodyProcessing ---------------------------
(***************************************************************************)
(* The body of a data message: BodyProcessor, the VersionConverter it      *)
(* calls for structs of other versions, and the contexts of both sides,    *)
(* which serve one message after another.  A writer of one build           *)
(* serializes a struct whose pointers form a graph, a reader of another    *)
(* deserializes it.                                                        *)
(*                                                                         *)
(* The maps of pointers are those that ISerializable makes for a call, and *)
(* each message has a binary of its own.                                   *)
(*                                                                         *)
(* The calls that the code nests are an agenda, the innermost first: each  *)
(* overload of serialize and deserialize is an action that replaces its    *)
(* own item by those of the calls it makes.                                *)
(*                                                                         *)
(* A place is where an object stands: an object the program made, then     *)
(* members and their indices.  The value of a number is the place it has   *)
(* in the writer, so that the reader's memory shows where each came from.  *)
(* The message is counted in tokens, one per number, pointer prefix or     *)
(* struct copied as a whole.                                               *)
(*                                                                         *)
(* Spared names messages the code does not read back and a run leaves out: *)
(*   "elements"  pointers to elements of an array, if either side is not   *)
(*               of the version of the message                             *)
(***************************************************************************)
EXTENDS DataContexts

CONSTANTS
    Builds,         \* what builds know of the structs, by name
    Pairs,          \* the builds of writer and reader that talk
    RootType,       \* the struct of the message
    root,           \* the object the writer serializes
    Graphs,         \* contents of the writer's pointers, null ones left out
    Calls,          \* versions, flags and byte orders the writer is set to
    Spared

(* The objects of the writer's program, which the reader's never are. *)
Objects == {root} \cup UNION {{g[slot][1] : slot \in DOMAIN g} : g \in Graphs}

IsSequence(s) == Len(s) \in Nat /\ s = [i \in 1 .. Len(s) |-> s[i]]
IsPlace(p) == IsSequence(p) /\ p # <<>>

ASSUME BuildsAssumption ==
    \A talk \in Pairs : \A side \in {1, 2} :
        LET b == Builds[talk[side]]
        IN  IsBuild(b) /\ RootType \in DOMAIN b.private

(* A reader still has the oldest version the writer has of the root.       *)
(* Otherwise a context kept after ErrorNotSupportedInterfaceVersion would  *)
(* take that version for the least it accepts (ISerializable.h:191).       *)
ASSUME OriginAssumption ==
    \A talk \in Pairs :
        getOriginPrivateVersion(Builds[talk[2]], RootType) <=
            getOriginPrivateVersion(Builds[talk[1]], RootType)

ASSUME GraphsAssumption ==
    /\ \A object \in Objects : object \notin Nat
    /\ \A g \in Graphs : \A slot \in DOMAIN g : IsPlace(g[slot])

ASSUME CallsAssumption ==
    Calls \subseteq [version : Nat, flags : SUBSET DataFlags, endiannessDifference : BOOLEAN]

VARIABLES
    pair,           \* the builds of the writer and of the reader
    graph,          \* what the writer's pointers hold
    sctx, dctx,     \* the contexts
    phase, agenda,  \* idle, write, written or read, and what is left to do
    out,            \* the message
    pointersMap,    \* the writer's: offsets of the objects written
    objectsMap,     \* the reader's: the objects at the offsets
    tell,           \* how much of the message is read
    memory,         \* the reader's numbers and pointers
    made, dead,     \* objects the reader has made, and temporaries that are gone
    status

writerVars == <<graph, sctx, out, pointersMap>>
readerVars == <<dctx, objectsMap, tell, memory, made, dead>>
vars == <<pair, phase, agenda, status, writerVars, readerVars>>

writer == Builds[pair[1]]
reader == Builds[pair[2]]

Null == <<>>                    \* the null pointer, and the number 0
Root == <<root>>
TheCopy == <<0>>                \* the root the reader deserializes into
Header == <<<<"context">>, <<"context">>>>      \* what precedes the body

Part(place, name, j) == place \o <<name, j>>
At(f, x) == IF x \in DOMAIN f THEN f[x] ELSE Null
With(f, x, value) == [y \in DOMAIN f \cup {x} |-> IF y = x THEN value ELSE f[y]]

Doing(side, what) == phase = side /\ agenda # <<>> /\ Head(agenda).do = what
Continue(items) == agenda' = items \o Tail(agenda) /\ UNCHANGED <<phase, status>>

(* Mutation: what is left to do is not given up. *)
StopAtItem(s) == UNCHANGED agenda /\ phase' = "idle" /\ status' = s

Stop(s) == agenda' = <<>> /\ phase' = "idle" /\ status' = s

Init ==
    /\ pair \in Pairs
    /\ graph = <<>>
    /\ sctx = NewContext /\ dctx = NewContext
    /\ phase = "idle" /\ agenda = <<>> /\ status = "none"
    /\ out = <<>> /\ pointersMap = <<>> /\ objectsMap = <<>>
    /\ tell = 0 /\ memory = <<>> /\ made = 0 /\ dead = {}

-----------------------------------------------------------------------------
(* The contexts between two messages. *)

(* Mutation: the offsets of the last message are still in the map of the next. *)
ForgetButOffsets ==
    /\ phase' = "idle" /\ agenda' = <<>>
    /\ graph' = <<>> /\ out' = <<>> /\ objectsMap' = <<>>
    /\ tell' = 0 /\ memory' = <<>> /\ made' = 0 /\ dead' = {}
    /\ UNCHANGED <<pair, pointersMap>>

Forget ==
    /\ phase' = "idle" /\ agenda' = <<>>
    /\ graph' = <<>> /\ out' = <<>> /\ pointersMap' = <<>> /\ objectsMap' = <<>>
    /\ tell' = 0 /\ memory' = <<>> /\ made' = 0 /\ dead' = {}
    /\ UNCHANGED pair

(* The message is done with, or given up: a context stays as it is, or starts afresh. *)
NextMessage(newWriter, clearReader) ==
    /\ phase \in {"idle", "written"} /\ status \notin {"none", "ready"}
    /\ sctx' = IF newWriter THEN NewContext ELSE sctx
    /\ status' = IF newWriter THEN "none" ELSE "ready"
    /\ dctx' = IF clearReader THEN clear(dctx) ELSE dctx
    /\ Forget

SetUp(call) ==
    /\ status = "none"
    /\ sctx' = [sctx EXCEPT !.version = call.version, !.flags = call.flags,
                            !.endiannessDifference = call.endiannessDifference]
    /\ status' = "ready"
    /\ UNCHANGED <<pair, graph, phase, agenda, out, pointersMap, readerVars>>

-----------------------------------------------------------------------------
(* Serialization. *)

(* A struct that stands at a place, with its values from a place, of which it kept some. *)
Struct(T, version, at, from, kept) ==
    [do |-> "struct", type |-> T, version |-> version, at |-> at, from |-> from, kept |-> kept]

Whole(b, T, version, at, from) == Struct(T, version, at, from, Names(b, T, version))

Latest(b, T, at) == Whole(b, T, getLatestPrivateVersion(b, T), at, at)

Layout(b, item) == b.layout[item.type][item.version]

(* The names that every version of a chain of conversions hands on. *)
Handed(b, T, versions) ==
    {name \in Names(b, T, Head(versions)) : \A v \in ToSet(versions) : name \in Names(b, T, v)}

(* The version as which a struct goes into the message *)
VersionInMessage(b, item, ctx) ==
    IF ctx.notMatch THEN getBestCompatInterfaceVersion(b, item.type, item.version, ctx.version)
    ELSE item.version

MembersOf(b, item) ==
    LET members == Layout(b, item).members
    IN  [i \in DOMAIN members |->
            [do |-> members[i].kind, member |-> members[i],
             at |-> item.at, from |-> item.from, kept |-> item.kept]]

(* The member of a struct, or an element of a member that is an array *)
SubStruct(b, item, j) ==
    LET m == item.member
    IN  Whole(b, m.type, m.version, Part(item.at, m.name, j), Part(item.from, m.name, j))

Value(item, name) == IF name \in item.kept THEN Part(item.from, name, 1) ELSE Null

AsBytes(b, item) ==
    <<"bytes", [name \in Names(b, item.type, item.version) |-> Value(item, name)]>>

(* Without checkRecursivePointers pointers must not lead back. *)
Acyclic(g) ==
    LET objects == {slot[1] : slot \in DOMAIN g}
    IN  \E rank \in [objects -> 1 .. Cardinality(objects)] :
            \A slot \in DOMAIN g :
                g[slot][1] \in objects /\ Len(g[slot]) = 1 => rank[slot[1]] < rank[g[slot][1]]

Serialize(g) ==
    LET context == SerializeContext(writer, RootType, sctx)
    IN  /\ status = "ready"
        /\ "checkRecursivePointers" \in sctx.flags \/ Acyclic(g)
        /\ graph' = g
        /\ sctx' = context.ctx
        /\ out' = Header
        /\ IF context.accepted
           THEN /\ agenda' = <<Latest(writer, RootType, Root)>>
                /\ phase' = "write" /\ status' = "writing"
           ELSE Stop("refused")
        /\ UNCHANGED <<pair, pointersMap, readerVars>>

(* A temporary on the heap may get no memory. *)
NoMemory == Stop("no memory")

Write(tokens) == out' = out \o tokens

(* toOldStruct: the versions down to that of the message are built, and the last one serialized. *)
ToOldStruct ==
    LET item == Head(agenda)
        target == VersionInMessage(writer, item, sctx)
        chain == ToVersion(writer, item.type, item.version, target)
    IN  /\ Doing("write", "struct")
        /\ target # item.version
        /\ \/ IF target = Undefined THEN Stop("internal")
              ELSE Continue(<<Struct(item.type, Last(chain), <<"temporary">>, item.from,
                                     item.kept \cap Handed(writer, item.type, chain))>>)
           \/ NoMemory
        /\ UNCHANGED <<pair, writerVars, readerVars>>

FlagsSuit(b, item, ctx) ==
    ctx.notMatch => testDataFlagsCompatibility(b, item.type, ctx.flags)

SerializeStruct ==
    LET item == Head(agenda)
    IN  /\ Doing("write", "struct")
        /\ VersionInMessage(writer, item, sctx) = item.version
        /\ IF ~FlagsSuit(writer, item, sctx) THEN Stop("flags") /\ UNCHANGED out
           ELSE IF SimplyAssigned(Layout(writer, item), sctx)
           THEN Write(<<AsBytes(writer, item)>>) /\ Continue(<<>>)
           ELSE Continue(MembersOf(writer, item)) /\ UNCHANGED out
        /\ UNCHANGED <<pair, graph, sctx, pointersMap, readerVars>>

SerializeMember ==
    /\ Doing("write", "member")
    /\ Continue(<<SubStruct(writer, Head(agenda), 1)>>)
    /\ UNCHANGED <<pair, writerVars, readerVars>>

SerializeNumber ==
    /\ Doing("write", "number")
    /\ Write(<<<<"number", Value(Head(agenda), Head(agenda).member.name)>>>>)
    /\ Continue(<<>>)
    /\ UNCHANGED <<pair, graph, sctx, pointersMap, readerVars>>

(* serialize of an array *)
SerializeArray ==
    LET item == Head(agenda)
        m == item.member
        elements == [j \in 1 .. m.n |-> SubStruct(writer, item, j)]
    IN  /\ Doing("write", "array")
        /\ IF SimplyAssigned(writer.layout[m.type][m.version], sctx)
           THEN Write([j \in 1 .. m.n |-> AsBytes(writer, elements[j])]) /\ Continue(<<>>)
           ELSE /\ Continue(FlattenSeq([j \in 1 .. m.n |->
                        <<[do |-> "element", at |-> elements[j].at], elements[j]>>]))
                /\ UNCHANGED out
        /\ UNCHANGED <<pair, graph, sctx, pointersMap, readerVars>>

SerializeElement ==
    /\ Doing("write", "element")
    /\ pointersMap' = IF "checkRecursivePointers" \in sctx.flags
                      THEN With(pointersMap, Head(agenda).at, Len(out)) ELSE pointersMap
    /\ Continue(<<>>)
    /\ UNCHANGED <<pair, graph, sctx, out, readerVars>>

Pointee(item) == IF item.member.name \in item.kept
                 THEN At(graph, Part(item.from, item.member.name, 1)) ELSE Null

(* Mutation: the offset is that of the prefix, and not of the object behind it. *)
addPointerToMapBefore(p) ==
    IF p = Null THEN [prefix |-> 0, new |-> FALSE]
    ELSE IF p \in DOMAIN pointersMap THEN [prefix |-> pointersMap[p] - 1, new |-> FALSE]
    ELSE [prefix |-> 1, new |-> TRUE]

(* addPointerToMap: what goes before the object, and whether the object follows *)
addPointerToMap(p) ==
    IF p = Null THEN [prefix |-> 0, new |-> FALSE]
    ELSE IF p \in DOMAIN pointersMap THEN [prefix |-> pointersMap[p], new |-> FALSE]
    ELSE [prefix |-> 1, new |-> TRUE]

SerializePointer ==
    LET item == Head(agenda)
        p == Pointee(item)
        added == addPointerToMap(p)
        object == <<Latest(writer, item.member.type, p)>>
        allowed == "allowUnmanagedPointers" \in sctx.flags
        recursive == "checkRecursivePointers" \in sctx.flags
    IN  /\ Doing("write", "pointer")
        /\ \/ /\ ~allowed
              /\ Stop("not supported")
              /\ UNCHANGED <<out, pointersMap>>
           \/ /\ allowed /\ recursive
              /\ Write(<<<<"size", added.prefix>>>>)
              /\ pointersMap' = IF added.new THEN With(pointersMap, p, Len(out')) ELSE pointersMap
              /\ Continue(IF added.new THEN object ELSE <<>>)
           \/ /\ allowed /\ ~recursive
              /\ Write(<<<<"flag", IF p = Null THEN 0 ELSE 1>>>>)
              /\ Continue(IF p = Null THEN <<>> ELSE object)
              /\ UNCHANGED pointersMap
        /\ UNCHANGED <<pair, graph, sctx, readerVars>>

EndOfWriting ==
    /\ phase = "write" /\ agenda = <<>>
    /\ phase' = "written" /\ status' = "written"
    /\ UNCHANGED <<pair, agenda, writerVars, readerVars>>

-----------------------------------------------------------------------------
(* Deserialization. *)

PointsToElement == \E slot \in DOMAIN graph : Len(graph[slot]) > 1

(* A message as the reader has it: added says whether it has a container for new pointers. *)
Deserialize(added) ==
    LET context == DeserializeContext(reader, RootType, dctx, sctx.version, sctx.flags,
                                      sctx.endiannessDifference, added)
    IN  /\ phase = "written"
        /\ "elements" \in Spared /\ PointsToElement =>
               ~sctx.notMatch /\ ~context.ctx.notMatch
        /\ dctx' = context.ctx
        /\ IF context.accepted
           THEN /\ agenda' = <<Latest(reader, RootType, TheCopy)>>
                /\ phase' = "read" /\ status' = "reading"
           ELSE Stop("refused")
        /\ tell' = Len(Header)
        /\ UNCHANGED <<pair, writerVars, objectsMap, memory, made, dead>>

Temporaries == {item.temporary[1] : item \in {x \in ToSet(agenda) : x.do = "convert"}}

(* Mutation: a failure also frees the objects that were added. *)
AbandonAdded(s) == Stop(s) /\ dead' = 1 .. made

(* The calls return one by one, and their temporaries with them. *)
Abandon(s) == Stop(s) /\ dead' = dead \cup Temporaries

(* The next n tokens, if they are what is read for; otherwise the reader makes nothing of them. *)
Expects(kind, n) ==
    /\ tell + n <= Len(out)
    /\ \A i \in 1 .. n : out[tell + i][1] = kind

Read(n) == tell' = tell + n

(* fromOldStruct: an object of the version of the message is read, then converted. *)
FromOldStruct ==
    LET item == Head(agenda)
        target == VersionInMessage(reader, item, dctx)
        chain == FromVersion(reader, item.type, item.version, target)
        temporary == <<made + 1>>
    IN  /\ Doing("read", "struct")
        /\ target # item.version
        /\ \/ /\ Continue(<<Whole(reader, item.type, Head(chain), temporary, temporary),
                            [do |-> "convert", type |-> item.type, version |-> item.version,
                             at |-> item.at, temporary |-> temporary, chain |-> chain]>>)
              /\ made' = made + 1
              /\ UNCHANGED dead
           \/ Abandon("no memory") /\ UNCHANGED made
        /\ UNCHANGED <<pair, writerVars, dctx, objectsMap, tell, memory>>

StartsWith(slot, place) == Len(place) < Len(slot) /\ SubSeq(slot, 1, Len(place)) = place

(* What the inits of a chain carry from the temporary into the object *)
Converted(item) ==
    LET names == Handed(reader, item.type, Append(item.chain, item.version))
        read == {slot \in DOMAIN memory : StartsWith(slot, item.temporary)}
        carried == {slot \in read : slot[Len(item.temporary) + 1] \in names}
        source(slot) == item.temporary \o SubSeq(slot, Len(item.at) + 1, Len(slot))
        new == {item.at \o SubSeq(slot, Len(item.temporary) + 1, Len(slot)) : slot \in carried}
    IN  [slot \in (DOMAIN memory \ read) \cup new |->
            IF slot \in new THEN memory[source(slot)] ELSE memory[slot]]

ConvertToUpperVersion ==
    LET item == Head(agenda)
    IN  /\ Doing("read", "convert")
        /\ \/ IF convertToUpperVersion(reader, item.type, item.version, item.chain)
              THEN /\ memory' = Converted(item)
                   /\ dead' = dead \cup {item.temporary[1]}
                   /\ Continue(<<>>)
              ELSE Abandon("no such handler") /\ UNCHANGED memory
           \/ Len(item.chain) > 1 /\ Abandon("no memory") /\ UNCHANGED memory
        /\ UNCHANGED <<pair, writerVars, dctx, objectsMap, tell, made>>

ExpectsBytes(structs) ==
    /\ Expects("bytes", Len(structs))
    /\ \A j \in 1 .. Len(structs) :
        DOMAIN out[tell + j][2] = Names(reader, structs[1].type, structs[1].version)

(* Bytes copied into structs that stand next to one another *)
Copied(structs) ==
    LET names == Names(reader, structs[1].type, structs[1].version)
        slots == {Part(structs[j].at, name, 1) : j \in 1 .. Len(structs), name \in names}
        number(slot) == CHOOSE j \in 1 .. Len(structs) : StartsWith(slot, structs[j].at)
        value(slot) == out[tell + number(slot)][2][slot[Len(slot) - 1]]
    IN  [slot \in DOMAIN memory \cup slots |->
            IF slot \in slots THEN value(slot) ELSE memory[slot]]

TakeBytes(structs) ==
    IF ExpectsBytes(structs)
    THEN /\ memory' = Copied(structs)
         /\ Read(Len(structs)) /\ Continue(<<>>) /\ UNCHANGED dead
    ELSE Abandon("garbled") /\ UNCHANGED <<memory, tell>>

DeserializeStruct ==
    LET item == Head(agenda)
    IN  /\ Doing("read", "struct")
        /\ VersionInMessage(reader, item, dctx) = item.version
        /\ IF ~FlagsSuit(reader, item, dctx)
           THEN Abandon("flags") /\ UNCHANGED <<memory, tell>>
           ELSE IF SimplyAssigned(Layout(reader, item), dctx)
           THEN TakeBytes(<<item>>)
           ELSE Continue(MembersOf(reader, item)) /\ UNCHANGED <<memory, tell, dead>>
        /\ UNCHANGED <<pair, writerVars, dctx, objectsMap, made>>

DeserializeMember ==
    /\ Doing("read", "member")
    /\ Continue(<<SubStruct(reader, Head(agenda), 1)>>)
    /\ UNCHANGED <<pair, writerVars, readerVars>>

DeserializeNumber ==
    LET item == Head(agenda)
    IN  /\ Doing("read", "number")
        /\ IF Expects("number", 1)
           THEN /\ memory' = With(memory, Part(item.at, item.member.name, 1), out[tell + 1][2])
                /\ Read(1) /\ Continue(<<>>) /\ UNCHANGED dead
           ELSE Abandon("garbled") /\ UNCHANGED <<memory, tell>>
        /\ UNCHANGED <<pair, writerVars, dctx, objectsMap, made>>

(* deserialize of an array *)
DeserializeArray ==
    LET item == Head(agenda)
        m == item.member
        elements == [j \in 1 .. m.n |-> SubStruct(reader, item, j)]
    IN  /\ Doing("read", "array")
        /\ IF SimplyAssigned(reader.layout[m.type][m.version], dctx)
           THEN TakeBytes(elements)
           ELSE /\ Continue(FlattenSeq([j \in 1 .. m.n |->
                        <<[do |-> "element", at |-> elements[j].at], elements[j]>>]))
                /\ UNCHANGED <<memory, tell, dead>>
        /\ UNCHANGED <<pair, writerVars, dctx, objectsMap, made>>

DeserializeElement ==
    /\ Doing("read", "element")
    /\ objectsMap' = IF "checkRecursivePointers" \in dctx.flags
                     THEN With(objectsMap, tell, Head(agenda).at) ELSE objectsMap
    /\ Continue(<<>>)
    /\ UNCHANGED <<pair, writerVars, dctx, tell, memory, made, dead>>

(* The memory for a new object, and its deserialization *)
NewObject(slot, T) ==
    LET new == <<made + 1>>
    IN  \/ /\ made' = made + 1
           /\ memory' = With(memory, slot, new)
           /\ objectsMap' = IF "checkRecursivePointers" \in dctx.flags
                            THEN With(objectsMap, tell', new) ELSE objectsMap
           /\ Continue(<<Latest(reader, T, new)>>)
           /\ UNCHANGED dead
        \/ /\ memory' = With(memory, slot, Null)
           /\ Abandon("no memory")
           /\ UNCHANGED <<made, objectsMap>>

(* getPointerFromMap, for an object that was met before: an unknown offset adds a null pointer *)
KnownObject(slot, offset) ==
    /\ IF offset >= tell'
       THEN Abandon("internal") /\ UNCHANGED <<memory, objectsMap>>
       ELSE /\ memory' = With(memory, slot, At(objectsMap, offset))
            /\ objectsMap' = With(objectsMap, offset, At(objectsMap, offset))
            /\ Continue(<<>>) /\ UNCHANGED dead
    /\ UNCHANGED made

DeserializePointer ==
    LET item == Head(agenda)
        slot == Part(item.at, item.member.name, 1)
        kind == IF "checkRecursivePointers" \in dctx.flags THEN "size" ELSE "flag"
        prefix == out[tell + 1][2]
    IN  /\ Doing("read", "pointer")
        /\ IF "allowUnmanagedPointers" \in dctx.flags /\ Expects(kind, 1)
           THEN /\ Read(1)
                /\ \/ /\ prefix = 0
                      /\ memory' = With(memory, slot, Null)
                      /\ Continue(<<>>)
                      /\ UNCHANGED <<objectsMap, made, dead>>
                   \/ prefix = 1 /\ NewObject(slot, item.member.type)
                   \/ prefix > 1 /\ KnownObject(slot, prefix)
           ELSE /\ Abandon(IF Expects(kind, 1) THEN "not supported" ELSE "garbled")
                /\ UNCHANGED <<objectsMap, tell, memory, made>>
        /\ UNCHANGED <<pair, writerVars, dctx>>

EndOfReading ==
    /\ phase = "read" /\ agenda = <<>>
    /\ phase' = "idle" /\ status' = "received"
    /\ UNCHANGED <<pair, agenda, writerVars, readerVars>>

-----------------------------------------------------------------------------

WriterNext ==
    \/ \E g \in Graphs : Serialize(g)
    \/ ToOldStruct \/ SerializeStruct \/ SerializeMember \/ SerializeNumber
    \/ SerializeArray \/ SerializeElement \/ SerializePointer \/ EndOfWriting

ReaderNext ==
    \/ \E added \in BOOLEAN : Deserialize(added)
    \/ FromOldStruct \/ ConvertToUpperVersion \/ DeserializeStruct \/ DeserializeMember
    \/ DeserializeNumber \/ DeserializeArray \/ DeserializeElement \/ DeserializePointer
    \/ EndOfReading

Next ==
    \/ \E newWriter, clearReader \in BOOLEAN : NextMessage(newWriter, clearReader)
    \/ \E call \in Calls : SetUp(call)
    \/ WriterNext
    \/ ReaderNext

Spec == Init /\ [][Next]_vars

-----------------------------------------------------------------------------
(***************************************************************************)
(* Properties.                                                             *)
(***************************************************************************)

Statuses == {"none", "ready", "refused", "writing", "written", "reading", "received",
             "no memory", "not supported", "flags", "internal", "no such handler", "garbled"}

(* The contexts, the maps and the agenda have their types. *)
TypeOK ==
    /\ sctx \in Contexts /\ dctx \in Contexts
    /\ phase \in {"idle", "write", "written", "read"} /\ status \in Statuses
    /\ agenda # <<>> => phase \in {"write", "read"}
    /\ \A p \in DOMAIN pointersMap : pointersMap[p] \in Len(Header) .. Len(out)
    /\ tell \in 0 .. Len(out) /\ DOMAIN objectsMap \subseteq Len(Header) .. Len(out)
    /\ dead \subseteq 1 .. made

(* A message of which both sides took the version and the flags is read to *)
(* its last byte: whatever the two builds know, deserialize meets what     *)
(* serialize wrote, converts every struct, and refuses nothing half way    *)
(* but for want of memory.                                                 *)
AcceptedIsRead ==
    /\ status \notin {"flags", "internal", "no such handler", "garbled"}
    /\ status = "received" => tell = Len(out)

VersionsPassed(b, T) ==
    LET lowest == getBestCompatInterfaceVersion(b, T, getLatestPrivateVersion(b, T), sctx.version)
    IN  {v \in ToSet(b.private[T]) : v >= lowest}

(* A member arrives if it is in every version between each build's own and the message's. *)
Survives(T, name) ==
    \A b \in {writer, reader} : \A v \in VersionsPassed(b, T) : name \in Names(b, T, v)

MembersRead(T) == ToSet(reader.layout[T][getLatestPrivateVersion(reader, T)].members)

(* What stands in, or is pointed to from, an object that was sent and the object it became *)
Inside(met) ==
    LET members == {m \in MembersRead(met.type) : m.kind # "number" /\ Survives(met.type, m.name)}
        pair_of(m, j) == [sent |-> Part(met.sent, m.name, j), got |-> Part(met.got, m.name, j),
                          type |-> m.type]
        places == UNION {{pair_of(m, j) : j \in 1 .. m.n} : m \in members}
        isPointer(p) == \E m \in members : m.kind = "pointer" /\ p = pair_of(m, 1)
        follow(p) == [p EXCEPT !.sent = At(graph, @), !.got = At(memory, @)]
    IN  {p \in places : ~isPointer(p)} \cup
        {p \in {follow(q) : q \in {x \in places : isPointer(x)}} : p.sent # Null}

Met ==
    LET met[n \in Nat] ==
            IF n = 0 THEN {[sent |-> Root, got |-> TheCopy, type |-> RootType]}
            ELSE met[n - 1] \cup UNION {Inside(m) : m \in met[n - 1]}
    IN  met[Cardinality(DOMAIN graph) + 1]

(* Every object that can be reached in the writer has become one that is   *)
(* reached in the same way in the reader, with the same numbers and the    *)
(* same null pointers; what a version between them did not have is 0, and  *)
(* nothing comes from another place than its own.                          *)
ReceivedAsSent ==
    status = "received" =>
        \A met \in Met : \A m \in MembersRead(met.type) :
            LET sent == Part(met.sent, m.name, 1)
                got == At(memory, Part(met.got, m.name, 1))
            IN  /\ m.kind = "number" =>
                       got = IF Survives(met.type, m.name) THEN sent ELSE Null
                /\ m.kind = "pointer" =>
                       (got = Null <=> ~Survives(met.type, m.name) \/ At(graph, sent) = Null)

(* With checkRecursivePointers two pointers to one object become two       *)
(* pointers to one object, and pointers to two objects do not.             *)
SharedStaysShared ==
    status = "received" /\ "checkRecursivePointers" \in sctx.flags =>
        \A x, y \in {met \in Met : Len(met.sent) = 1} : x.sent = y.sent <=> x.got = y.got

(* No pointer of an object the reader is left with points into an object   *)
(* that is gone, such as a struct of an older version that was read into   *)
(* and converted, after a message that was read and after one that failed. *)
PointersAreLive ==
    phase = "idle" =>
        \A slot \in DOMAIN memory :
            slot[1] \notin dead /\ memory[slot] # Null => memory[slot][1] \notin dead
=============================================================================

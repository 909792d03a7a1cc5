--------------------------- MODULE BodyInvariant ---------------------------
(***************************************************************************)
(* What holds of BodyProcessing between any two of its steps: the types of *)
(* all it keeps, and where the pointers of the reader may lead.            *)
(***************************************************************************)
EXTENDS BodyProcessing

Elements(s) == {s[i] : i \in 1 .. Len(s)}

(* The build that is at work, and its context *)
Worker == IF phase = "read" THEN reader ELSE writer
WorkerContext == IF phase = "read" THEN dctx ELSE sctx

-----------------------------------------------------------------------------
(* The agenda.                                                             *)

(* The message can hold a T, and unless the contexts differ the latest.    *)
InMessage(b, ctx, T) ==
    /\ T \in DOMAIN b.private
    /\ getOriginPrivateVersion(b, T) <= ctx.version
    /\ ~ctx.notMatch => getLatestInterfaceVersion(b, T) <= ctx.version

StructInMessage(b, ctx, T, version) ==
    /\ InMessage(b, ctx, T)
    /\ version \in ToSet(b.private[T])
    /\ ~ctx.notMatch => version = getLatestPrivateVersion(b, T)

MembersIn(b) ==
    UNION {UNION {ToSet(b.layout[T][v].members) : v \in ToSet(b.private[T])} :
           T \in DOMAIN b.private}

MemberInMessage(b, ctx, m) ==
    /\ m \in MembersIn(b)
    /\ m.kind = "pointer" => InMessage(b, ctx, m.type)
    /\ m.kind \in {"member", "array"} => StructInMessage(b, ctx, m.type, m.version)

(* An item of a side that has made n objects *)
IsItem(b, ctx, n, item) ==
    \/ /\ item.do = "struct"
       /\ StructInMessage(b, ctx, item.type, item.version)
       /\ IsPlace(item.at) /\ IsPlace(item.from)
    \/ /\ item.do \in MemberKinds
       /\ item.do = item.member.kind
       /\ MemberInMessage(b, ctx, item.member)
       /\ IsPlace(item.at) /\ IsPlace(item.from)
    \/ /\ item.do = "element"
       /\ \E m \in MembersIn(b) : m.kind = "array"
       /\ IsPlace(item.at)
    \/ /\ item.do = "convert"
       /\ ctx.notMatch
       /\ IsPlace(item.at)
       /\ \E k \in 1 .. n : item.temporary = <<k>>

IsAgenda ==
    /\ IsSequence(agenda)
    /\ agenda # <<>> => phase \in {"write", "read"}
    /\ \A item \in Elements(agenda) : IsItem(Worker, WorkerContext, made, item)

(* What is written comes from objects of the program.                      *)
WrittenFrom ==
    phase = "write" =>
        \A item \in Elements(agenda) : item.do # "element" => item.from[1] \in Objects

(* What is read goes to the copy or to an object the reader has made.      *)
ReadInto ==
    phase = "read" => \A item \in Elements(agenda) : item.at[1] \in 0 .. made

-----------------------------------------------------------------------------
(* The message, and what the reader has made of it.                        *)

IsSent(value) == value = Null \/ (IsPlace(value) /\ value[1] \notin Nat)

IsToken(token) ==
    \/ token = <<"context">>
    \/ \E value \in {token[2]} :
        \/ token = <<"number", value>> /\ IsSent(value)
        \/ token = <<"size", value>> /\ value \in Nat
        \/ token = <<"flag", value>> /\ value \in {0, 1}
        \/ token = <<"bytes", value>> /\ \A name \in DOMAIN value : IsSent(value[name])

IsMessage ==
    /\ IsSequence(out)
    /\ \A token \in Elements(out) : IsToken(token)
    /\ phase \in {"write", "written", "read"} => Len(out) >= Len(Header)
    /\ phase = "read" => tell >= Len(Header)

IsMemory ==
    /\ made \in Nat
    /\ \A slot \in DOMAIN memory :
        IsPlace(slot) /\ (memory[slot] = Null \/ IsPlace(memory[slot]))
    /\ \A offset \in DOMAIN objectsMap :
        objectsMap[offset] = Null \/ IsPlace(objectsMap[offset])

Unread == memory = <<>> /\ objectsMap = <<>> /\ made = 0 /\ dead = {}

(* What is done with a message follows from how far it has come.           *)
InOrder ==
    /\ phase = "write" <=> status = "writing"
    /\ phase = "written" <=> status = "written"
    /\ phase = "read" <=> status = "reading"
    /\ status \in {"none", "ready"} => out = <<>> /\ pointersMap = <<>>
    /\ status \in {"none", "ready"} \/ phase \in {"write", "written"} => Unread
    /\ phase \in {"write", "written"} => getOriginPrivateVersion(writer, RootType) <= sctx.version
    /\ dctx.version = Undefined \/ getOriginPrivateVersion(reader, RootType) <= dctx.version

Typed ==
    /\ TypeOK
    /\ pair \in Pairs /\ graph \in Graphs \cup {<<>>}
    /\ IsAgenda /\ WrittenFrom /\ ReadInto /\ IsMessage /\ IsMemory /\ InOrder

-----------------------------------------------------------------------------
(* Where the reader's pointers lead.                                       *)

(* Elements of arrays are numbered while structs are converted.            *)
ElementsNumbered ==
    /\ "checkRecursivePointers" \in dctx.flags /\ dctx.notMatch
    /\ \E m \in MembersIn(reader) : m.kind = "array"

(* A number tells of the writer's program; a pointer leads to the copy, or *)
(* to an object that was made to stay.                                     *)
Stays(value) ==
    value = Null \/ value[1] \notin Nat \/ value[1] \in (0 .. made) \ (dead \cup Temporaries)

PointersStay ==
    /\ \A slot \in DOMAIN memory : Stays(memory[slot])
    /\ \A offset \in DOMAIN objectsMap : Stays(objectsMap[offset])

BodyInv ==
    /\ Typed
    /\ ~dctx.notMatch => dead = {}
    /\ "checkRecursivePointers" \notin dctx.flags => objectsMap = <<>>
    /\ ~ElementsNumbered => PointersStay
=============================================================================

---------------------------- MODULE BodyReading ----------------------------
(***************************************************************************)
(* What a reader of BodyProcessing may expect of a message: a grammar of   *)
(* the tokens that a writer produces, which depends on the structs as they *)
(* were at the version of the message, and so is the same for both builds. *)
(* It serves to show that a message that was accepted is read to its end.  *)
(***************************************************************************)
EXTENDS BodyInvariant

-----------------------------------------------------------------------------
(* What two builds must have in common.                                    *)

(* The versions that a T of a version may have in a message of version c   *)
VersionsFor(b, T, version, c) == {p \in ToSet(b.private[T]) : p <= version /\ p <= c}

VersionsTill(b, T, c) == {p \in ToSet(b.private[T]) : p <= c}

(* A later build may name a later version of a part, which is converted.   *)
SamePart(w, r, c, m, k) ==
    /\ m.name = k.name /\ m.kind = k.kind /\ m.type = k.type /\ m.n = k.n
    /\ m.kind \in {"member", "array"} =>
           VersionsFor(w, m.type, m.version, c) = VersionsFor(r, k.type, k.version, c)

(***************************************************************************)
(* Both builds have the same definition of a version of a struct, but for  *)
(* versions of its parts that the message is too old for.  The last line   *)
(* excludes a struct that is copied as bytes by a build that knows an      *)
(* older version of one of its parts, and member by member by another.     *)
(***************************************************************************)
SameLayout(w, r, c, T, version) ==
    LET known == w.layout[T][version]
        legacy == r.layout[T][version]
    IN  /\ Len(known.members) = Len(legacy.members)
        /\ \A i \in 1 .. Len(known.members) :
               SamePart(w, r, c, known.members[i], legacy.members[i])
        /\ known.tag = legacy.tag
        /\ known.tag # "none" =>
               /\ known.endiannessTolerant = legacy.endiannessTolerant
               /\ known.latest <= c <=> legacy.latest <= c

SameStructs(w, r, c) ==
    \A T \in DOMAIN w.private \cap DOMAIN r.private :
        /\ VersionsTill(w, T, c) = VersionsTill(r, T, c)
        /\ \A version \in VersionsTill(w, T, c) : SameLayout(w, r, c, T, version)

(* The two builds of a pair have one history up to where both have come.   *)
OneHistory ==
    \A talk \in Pairs :
        LET w == Builds[talk[1]]
            r == Builds[talk[2]]
        IN  \A c \in 0 .. w.interface : c <= r.interface => SameStructs(w, r, c)

(* The flags of a struct contain those of its parts.                       *)
FlagsOfParts ==
    \A talk \in Pairs : \A side \in {1, 2} :
        LET b == Builds[talk[side]]
        IN  \A T \in DOMAIN b.private : \A version \in ToSet(b.private[T]) :
                \A m \in ToSet(b.layout[T][version].members) :
                    m.kind # "number" =>
                        /\ b.forbidden[m.type] \subseteq b.forbidden[T]
                        /\ b.mandatory[m.type] \subseteq b.mandatory[T]

(* With a fourth version convertToUpperVersion may find no init.           *)
ThreeVersions ==
    \A talk \in Pairs : \A T \in DOMAIN Builds[talk[2]].private :
        Len(Builds[talk[2]].private[T]) <= 3

-----------------------------------------------------------------------------
(* The grammar. A symbol is what an item of an agenda comes to in the      *)
(* message, whichever side it is on.                                       *)

NumberSymbol == [do |-> "number"]
PointerSymbol(T) == [do |-> "pointer", type |-> T]
VersionSymbol(T, version) == [do |-> "struct", type |-> T, version |-> version]
StructSymbol(b, c, T, version) ==
    VersionSymbol(T, getBestCompatInterfaceVersion(b, T, version, c))
LatestSymbol(b, c, T) == StructSymbol(b, c, T, getLatestPrivateVersion(b, T))

MemberSymbols(b, c, m) ==
    CASE m.kind = "number" -> <<NumberSymbol>>
      [] m.kind = "pointer" -> <<PointerSymbol(m.type)>>
      [] m.kind = "member" -> <<StructSymbol(b, c, m.type, m.version)>>
      [] m.kind = "array" -> [j \in 1 .. m.n |-> StructSymbol(b, c, m.type, m.version)]

ItemSymbols(b, c, item) ==
    CASE item.do = "struct" -> <<StructSymbol(b, c, item.type, item.version)>>
      [] item.do \in MemberKinds -> MemberSymbols(b, c, item.member)
      [] OTHER -> <<>>

Shape(b, c, items) == FlattenSeq([i \in 1 .. Len(items) |-> ItemSymbols(b, c, items[i])])

StructSymbols(b, c, T, version) ==
    LET members == b.layout[T][version].members
    IN  FlattenSeq([i \in 1 .. Len(members) |-> MemberSymbols(b, c, members[i])])

(* A reading has symbols to do and has come to a place in the tokens.      *)
Reading(todo, at) == [todo |-> todo, at |-> at]

Prefix(ctx) == IF "checkRecursivePointers" \in ctx.flags THEN "size" ELSE "flag"

(* The token that comes next is what the symbol asks for.                  *)
Meets(b, ctx, tokens, x) ==
    LET next == Head(x.todo)
        token == tokens[x.at + 1]
        is(kind) == x.at \in 0 .. Len(tokens) - 1 /\ token[1] = kind
    IN  CASE next.do = "number" -> is("number")
          [] next.do = "pointer" ->
                 /\ "allowUnmanagedPointers" \in ctx.flags
                 /\ is(Prefix(ctx)) /\ token[2] \in 0 .. x.at
          [] OTHER ->
                 SimplyAssigned(b.layout[next.type][next.version], ctx) =>
                     is("bytes") /\ DOMAIN token[2] = Names(b, next.type, next.version)

After(b, ctx, tokens, x) ==
    LET next == Head(x.todo)
        go(symbols, n) == Reading(symbols \o Tail(x.todo), x.at + n)
    IN  CASE next.do = "number" -> go(<<>>, 1)
          [] next.do = "pointer" ->
                 go(IF tokens[x.at + 1][2] = 1
                    THEN <<LatestSymbol(b, ctx.version, next.type)>> ELSE <<>>, 1)
          [] OTHER ->
                 IF SimplyAssigned(b.layout[next.type][next.version], ctx) THEN go(<<>>, 1)
                 ELSE go(StructSymbols(b, ctx.version, next.type, next.version), 0)

Closed(b, ctx, tokens, R) ==
    \A x \in R : x.todo # <<>> /\ Meets(b, ctx, tokens, x) => After(b, ctx, tokens, x) \in R

(* One reading leads to another: it cannot be left without coming there.   *)
Leads(b, ctx, tokens, x, y) ==
    \A R : x \in R /\ Closed(b, ctx, tokens, R) => y \in R

-----------------------------------------------------------------------------

Start == Reading(<<LatestSymbol(writer, sctx.version, RootType)>>, Len(Header))
End == Reading(<<>>, Len(out))

(* What was written leads to what is left to write.                        *)
WritingLeads ==
    phase \in {"write", "written"} =>
        Leads(writer, sctx, out, Start, Reading(Shape(writer, sctx.version, agenda), Len(out)))

(* What is left to read leads to the end of the message.                   *)
ReadingLeads ==
    phase = "read" =>
        Leads(writer, sctx, out, Reading(Shape(reader, sctx.version, agenda), tell), End)

ContextsAgree ==
    /\ phase \in {"write", "written", "read"} =>
        sctx.version <= writer.interface /\ PointerFlagsAgree(sctx)
    /\ phase = "read" =>
        /\ dctx.version = sctx.version /\ dctx.flags = sctx.flags
        /\ dctx.endiannessDifference = sctx.endiannessDifference
        /\ dctx.version <= reader.interface

(* Nothing that is left to do is refused, and the writer knows it.         *)
TypeSuits(b, ctx, T) == T \in DOMAIN writer.private /\ testDataFlagsCompatibility(b, T, ctx.flags)

ItemSuits(b, ctx, item) ==
    /\ item.do = "struct" => TypeSuits(b, ctx, item.type)
    /\ item.do \in MemberKinds \ {"number"} => TypeSuits(b, ctx, item.member.type)
    /\ item.do = "convert" => convertToUpperVersion(b, item.type, item.version, item.chain)

ItemsSuit == \A item \in Elements(agenda) : ItemSuits(Worker, WorkerContext, item)

ReadingInv ==
    /\ BodyInv
    /\ WritingLeads /\ ReadingLeads /\ ContextsAgree /\ ItemsSuit
    /\ AcceptedIsRead
=============================================================================

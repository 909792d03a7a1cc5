------------------------- MODULE BodySharingProofs --------------------------
(***************************************************************************)
(* A message arrives as it was sent, and shared objects stay shared.  First*)
(* the reader's pointers and the objects they make, and its conversions, as*)
(* the last steps of the reader; then what is there at the end: it has the *)
(* numbers and the pointers of what was sent, which the two walks from the *)
(* root follow side by side.                                               *)
(***************************************************************************)
EXTENDS BodyTellingProofs, FiniteSetTheorems

-----------------------------------------------------------------------------
(* Pointers, and the objects they make.                                    *)

(* What the next token tells of a pointer                                  *)
LEMMA PointerIsTold ==
  ASSUME ReaderHas, NEW types, NEW origin, NEW numbered, NEW opened, NEW letter, NEW c,
         NEW item, NEW rest,
         ReaderFinds(types, origin, numbered, opened, letter, c, item, rest),
         item.do = "pointer", item.do = item.member.kind, item.from = item.at,
         NEW from, from = Sent(origin, item.at), NEW name, name = item.member.name,
         NEW p, p = PointerSent(letter, from, name), NEW prefix, prefix = out[tell + 1][2]
  PROVE  /\ TellsOf(letter, numbered, prefix, p)
         /\ prefix # 1 =>
              Traces(letter, out, Tracing(rest, tell + 1, numbered), Tracing(<<>>, Len(out), Seen))
         /\ prefix = 1 =>
              Traces(letter, out,
                     Tracing(First(StructAt(p), rest), tell + 1,
                             NumberedNow(letter, numbered, tell + 1, p)),
                     Tracing(<<>>, Len(out), Seen))
<1>1. /\ Traces(letter, out, Tracing(Then(ItemPlaces(origin, item), rest), tell, numbered),
                Tracing(<<>>, Len(out), Seen))
      /\ IsSequence(rest) /\ tell \in Nat
  BY DEF ReaderFinds, ReaderHas
<1>2. PICK s, x : s = PointerAt(from, name) /\ x = Tracing(First(s, rest), tell, numbered)
  OBVIOUS
<1>3. ItemPlaces(origin, item) = <<s>>
  <2>1. item.do \in MemberKinds /\ item.do # "struct"
    BY DEF MemberKinds
  <2> QED  BY <1>2, <2>1 DEF ItemPlaces, MemberPlaces
<1>4. Then(ItemPlaces(origin, item), rest) = First(s, rest)
  BY <1>1, <1>3, ThenIs
<1>5. Traces(letter, out, Tracing(First(s, rest), tell, numbered), Tracing(<<>>, Len(out), Seen))
  BY <1>1, <1>4
<1>6. /\ FacingWith(x, s, rest, tell, numbered) /\ Tells(letter, out, x)
      /\ Traces(letter, out, Traced(letter, out, x), Tracing(<<>>, Len(out), Seen))
  BY <1>1, <1>2, <1>5, ReaderIsTold
<1>7. FacingWith(x, PointerAt(from, name), rest, tell, numbered)
  BY <1>2, <1>6
<1>8. TellsOf(letter, numbered, prefix, p)
  BY <1>6, <1>7, PointerTells
<1>9. prefix # 1 => Traced(letter, out, x) = Tracing(rest, tell + 1, numbered)
  BY <1>7, TracedKnown
<1>10. prefix = 1 =>
         Traced(letter, out, x) = Tracing(First(StructAt(p), rest), tell + 1,
                                          NumberedNow(letter, numbered, tell + 1, p))
  <2> SUFFICES ASSUME prefix = 1
               PROVE  Traced(letter, out, x)
                        = Tracing(First(StructAt(p), rest), tell + 1,
                                  NumberedNow(letter, numbered, tell + 1, p))
    OBVIOUS
  <2>1. PICK at, u : at = tell /\ u = p
    OBVIOUS
  <2>2. FacingWith(x, PointerAt(from, name), rest, at, numbered) /\ out[at + 1][2] = 1
        /\ u = PointerSent(letter, from, name)
    BY <1>7, <2>1
  <2>3. Traced(letter, out, x)
          = Tracing(First(StructAt(u), rest), at + 1, NumberedNow(letter, numbered, at + 1, u))
    BY <2>2, TracedNew
  <2> QED  BY <2>1, <2>3
<1> QED  BY <1>6, <1>8, <1>9, <1>10

(* A pointer to nothing, or to an object that was met                      *)
LEMMA PointerIsKept ==
  ASSUME ReaderHas, NEW types, TypedBy(writer, graph, types),
         NEW origin, NEW numbered, NEW opened, NEW letter, NEW c, NEW item, NEW rest,
         ReaderFinds(types, origin, numbered, opened, letter, c, item, rest),
         item.do = "pointer", NEW m, m = item.member, NEW slot, slot = Part(item.at, m.name, 1),
         NEW value, memory' = With(memory, slot, value), HoldsAsTold(types, origin, item.at, m, value),
         out[tell + 1][2] # 1, tell' = tell + 1, Continue(<<>>),
         UNCHANGED <<pair, writerVars, dctx, made, dead>>,
         \A e \in numbered : e[1] \in DOMAIN objectsMap' /\ objectsMap'[e[1]] = objectsMap[e[1]]
  PROVE  ReadAsTold(types)'
<1>1. PICK T, from, items : /\ T = TypeOf(types, origin, item.at) /\ from = Sent(origin, item.at)
                            /\ items = <<>>
  OBVIOUS
<1>2. /\ Replaced(items) /\ Elements(items) = {} /\ phase' = phase
      /\ Then(Places(origin, items), rest) = rest /\ IsSequence(rest)
  BY <1>1, NothingComes
<1>3. item.do \in MemberKinds
  BY DEF MemberKinds
<1>4. /\ Stands(types, origin, item.at) /\ item.from = item.at /\ item.do = m.kind
      /\ m \in ToSet(MessageMembers(reader, T, c))
      /\ m.name \in Lasting(reader, T, c) \/ IsTemporary(item.at)
  BY <1>1, <1>3, MemberReadsIs
<1>5. c = sctx.version
  BY DEF ReaderFinds
<1>6. Traces(letter, out, Tracing(rest, tell + 1, numbered), Tracing(<<>>, Len(out), Seen))
  <2>1. PICK name, p, prefix : /\ name = m.name /\ p = PointerSent(letter, from, name)
                               /\ prefix = out[tell + 1][2]
    OBVIOUS
  <2>2. name = item.member.name /\ item.do = item.member.kind /\ prefix # 1
    BY <1>4, <2>1
  <2> QED  BY <1>1, <1>4, <2>1, <2>2, PointerIsTold
<1>7. SlotIs(types, origin, slot, item.at, m, value)
  BY <1>1, <1>4, <1>5 DEF SlotIs
<1>8. /\ DOMAIN memory' = DOMAIN memory \cup {slot} /\ memory'[slot] = value
      /\ \A y \in DOMAIN memory' \ {slot} : y \in DOMAIN memory /\ memory'[y] = memory[y]
  BY DEF With
<1>9. \A y \in DOMAIN memory' :
        \/ y \in DOMAIN memory /\ memory'[y] = memory[y]
        \/ \E q, k : SlotIs(types, origin, y, q, k, memory'[y])
  BY <1>7, <1>8
<1>10. item.do \in MemberKinds => MemberIsThere(opened, item.at, item.member)'
  BY <1>4, <1>8 DEF MemberIsThere
<1>11. tell' \in Nat /\ tell <= tell' /\ tell' # tell
  BY DEF ReaderHas
<1>12. Traces(letter, out, Tracing(Then(Places(origin, items), rest), tell', numbered),
              Tracing(<<>>, Len(out), Seen))
  BY <1>2, <1>6
<1>13. UNCHANGED <<pair, writerVars, dctx, made, dead, phase>>
  BY <1>2
<1>14. item.do # "convert" /\ item.do # "struct" /\ opened \subseteq opened
       /\ DOMAIN memory \subseteq DOMAIN memory'
  BY <1>8
<1>15. Reads(types, origin, numbered, opened, letter, item, rest, items, opened)
  BY <1>2, <1>9, <1>10, <1>11, <1>12, <1>13, <1>14 DEF Reads
<1> QED  BY <1>15, ReaderReadsOn

(* A null pointer, and one to an object whose offset the message has       *)
LEMMA PointerHolds ==
  ASSUME ReaderHas, NEW types, TypedBy(writer, graph, types),
         NEW origin, NEW numbered, NEW opened, NEW letter, NEW c, NEW item, NEW rest,
         ReaderFinds(types, origin, numbered, opened, letter, c, item, rest),
         item.do = "pointer", NEW m, m = item.member, NEW prefix, prefix = out[tell + 1][2]
  PROVE  /\ prefix = 0 => HoldsAsTold(types, origin, item.at, m, Null)
         /\ prefix \in Int /\ prefix > 1 =>
              HoldsAsTold(types, origin, item.at, m, At(objectsMap, prefix))
<1>1. PICK T, from, name : /\ T = TypeOf(types, origin, item.at) /\ from = Sent(origin, item.at)
                           /\ name = m.name
  OBVIOUS
<1>2. PICK p : p = PointerSent(letter, from, name)
  OBVIOUS
<1>3. item.do \in MemberKinds
  BY DEF MemberKinds
<1>4. item.from = item.at /\ item.do = m.kind
  BY <1>1, <1>3, MemberReadsIs
<1>5. TellsOf(letter, numbered, prefix, p)
  <2>1. name = item.member.name /\ item.do = item.member.kind
    BY <1>1, <1>4
  <2> QED  BY <1>1, <1>2, <1>4, <2>1, PointerIsTold
<1>6. letter = Letter(types) /\ NumberedAsTold(origin, numbered)
  BY DEF ReaderFinds, ReaderKnows
<1>7. ASSUME NEW value, p = Null => value = Null,
             p # Null => \E k \in Staying : value = <<k>> /\ origin[k] = p
      PROVE  HoldsAsTold(types, origin, item.at, m, value)
  <2>1. m.kind # "number"
    BY <1>4
  <2>2. PointerSent(Letter(types), Sent(origin, item.at), m.name) = p
    BY <1>1, <1>2, <1>6
  <2> QED  BY <1>7, <2>1, <2>2 DEF HoldsAsTold
<1>8. CASE prefix = 0
  <2>1. p = Null
    BY <1>5, <1>8 DEF TellsOf
  <2> QED  BY <1>7, <1>8, <2>1
<1>9. CASE prefix \in Int /\ prefix > 1
  <2>1. p # Null /\ <<prefix, p>> \in numbered
    BY <1>5, <1>9 DEF TellsOf
  <2>2. PICK e \in numbered : e = <<prefix, p>>
    BY <2>1
  <2>3. e[1] = prefix /\ e[2] = p
    BY <2>2
  <2>4. e[1] \in DOMAIN objectsMap /\ \E k \in Staying : objectsMap[e[1]] = <<k>> /\ origin[k] = e[2]
    BY <1>6 DEF NumberedAsTold
  <2>5. At(objectsMap, prefix) = objectsMap[prefix]
    BY <2>3, <2>4 DEF At
  <2>6. \E k \in Staying : At(objectsMap, prefix) = <<k>> /\ origin[k] = p
    BY <2>3, <2>4, <2>5
  <2> QED  BY <1>7, <1>9, <2>1, <2>6
<1> QED  BY <1>8, <1>9

(* An object was made that comes from a place.                             *)
Extended(origin, later, place) ==
  /\ UNCHANGED <<pair, graph, sctx, out, pointersMap>>
  /\ made \in Nat /\ made' = made + 1 /\ dead \subseteq 1..made /\ dead' = dead
  /\ IsPlace(place) /\ DOMAIN later = 0..made + 1 /\ later[made + 1] = place
  /\ \A k \in 0..made : later[k] = origin[k]

(* There is a function that knows of one more object.                      *)
LEMMA ExtendedBy ==
  ASSUME NEW origin, NEW place, NEW n \in Nat
  PROVE  \E later : DOMAIN later = 0..n + 1 /\ later[n + 1] = place
                    /\ \A k \in 0..n : later[k] = origin[k]
<1>1. PICK later : later = [k \in 0..n + 1 |-> IF k = n + 1 THEN place ELSE origin[k]]
  OBVIOUS
<1>2. n + 1 \in 0..n + 1 /\ \A k \in 0..n : k \in 0..n + 1 /\ k # n + 1
  OBVIOUS
<1> QED  BY <1>1, <1>2

(* Temporaries are objects that were made.                                 *)
LEMMA TemporariesAreMade ==
  ASSUME NEW types, NEW origin, NEW numbered, NEW opened, ReaderKnows(types, origin, numbered, opened),
         IsSequence(agenda)
  PROVE  Temporaries \subseteq 1..made /\ Temporaries \cap dead = {}
<1>1. Temporaries = TemporariesOf(agenda)
  <2>1. ToSet(agenda) = Elements(agenda)
    BY SequenceOfElements, SequenceIs
  <2> QED  BY <2>1 DEF Temporaries, TemporariesOf
<1>2. \A x \in Elements(agenda) : x.do = "convert" => x.temporary[1] \in (1..made) \ dead
  BY DEF ReaderKnows, ItemReads, ConvertReads
<1> QED  BY <1>1, <1>2 DEF TemporariesOf

(* An object that is there to stay                                         *)
LEMMA ExtendedToStay ==
  ASSUME NEW origin, NEW later, NEW place, Extended(origin, later, place), Origins(origin),
         Temporaries \subseteq 1..made, Temporaries' = Temporaries, Len(place) = 1
  PROVE  /\ Staying' = Staying \cup {made + 1} /\ Passing' = Passing
         /\ Onward(origin, later) /\ Origins(later)'
<1>1. /\ UNCHANGED <<pair, graph, sctx, out, pointersMap>>
      /\ made \in Nat /\ made' = made + 1 /\ dead \subseteq 1..made /\ dead' = dead
      /\ IsPlace(place) /\ DOMAIN later = 0..made + 1 /\ later[made + 1] = place
      /\ \A k \in 0..made : later[k] = origin[k]
  BY DEF Extended
<1>2. Passing' = Passing
  BY <1>1 DEF Passing
<1>3. Passing \subseteq 1..made
  BY <1>1 DEF Passing
<1>4. 0..made + 1 = (0..made) \cup {made + 1} /\ made + 1 \notin 1..made
  BY <1>1
<1>5. Staying' = Staying \cup {made + 1}
  BY <1>1, <1>2, <1>3, <1>4 DEF Staying
<1>6. Onward(origin, later)
  BY <1>1, <1>2, <1>5 DEF Onward
<1>7. /\ DOMAIN origin = 0..made /\ origin[0] = Root /\ 0 \in Staying
      /\ \A k \in 0..made : IsPlace(origin[k])
      /\ \A k \in Staying : Len(origin[k]) = 1 /\ k \in 0..made
  BY DEF Origins, Staying
<1>8. Origins(later)'
  <2>1. 0 \in 0..made
    BY <1>1
  <2>2. later[0] = Root /\ \A k \in 0..made + 1 : IsPlace(later[k])
    BY <1>1, <1>4, <1>7, <2>1
  <2>3. \A k \in Staying' : Len(later[k]) = 1
    BY <1>1, <1>5, <1>7
  <2> QED  BY <1>1, <1>5, <1>7, <2>2, <2>3 DEF Origins
<1> QED  BY <1>2, <1>5, <1>6, <1>8

(* An object that is there for a while                                     *)
LEMMA ExtendedForNow ==
  ASSUME NEW origin, NEW later, NEW place, Extended(origin, later, place), Origins(origin),
         Temporaries \subseteq 1..made, Temporaries' = Temporaries \cup {made + 1}
  PROVE  /\ Staying' = Staying /\ Passing' = Passing \cup {made + 1}
         /\ Onward(origin, later) /\ Origins(later)'
<1>1. /\ UNCHANGED <<pair, graph, sctx, out, pointersMap>>
      /\ made \in Nat /\ made' = made + 1 /\ dead \subseteq 1..made /\ dead' = dead
      /\ IsPlace(place) /\ DOMAIN later = 0..made + 1 /\ later[made + 1] = place
      /\ \A k \in 0..made : later[k] = origin[k]
  BY DEF Extended
<1>2. Passing' = Passing \cup {made + 1}
  BY <1>1 DEF Passing
<1>3. 0..made + 1 = (0..made) \cup {made + 1} /\ made + 1 \notin 0..made
  BY <1>1
<1>4. Staying' = Staying
  BY <1>1, <1>2, <1>3 DEF Staying
<1>5. Onward(origin, later)
  BY <1>1, <1>2, <1>4 DEF Onward
<1>6. /\ DOMAIN origin = 0..made /\ origin[0] = Root /\ 0 \in Staying
      /\ \A k \in 0..made : IsPlace(origin[k])
      /\ \A k \in Staying : Len(origin[k]) = 1 /\ k \in 0..made
  BY DEF Origins, Staying
<1>7. Origins(later)'
  <2>1. 0 \in 0..made
    BY <1>1
  <2>2. later[0] = Root /\ \A k \in 0..made + 1 : IsPlace(later[k])
    BY <1>1, <1>3, <1>6, <2>1
  <2>3. \A k \in Staying' : Len(later[k]) = 1
    BY <1>1, <1>4, <1>6
  <2> QED  BY <1>1, <1>4, <1>6, <2>2, <2>3 DEF Origins
<1> QED  BY <1>2, <1>4, <1>5, <1>7

(* The reader's numbers with a new object                                  *)
LEMMA NumberedWithNew ==
  ASSUME NEW origin, NEW numbered, NumberedAsTold(origin, numbered), NEW later, NEW p, p # Root,
         sctx' = sctx, made \in Nat, Staying \subseteq 0..made, origin[0] = Root,
         Staying' = Staying \cup {made + 1}, \A k \in 0..made : later[k] = origin[k], later[made + 1] = p,
         NEW letter, letter.ctx = sctx, tell \in Nat, tell >= 2, tell' = tell + 1,
         IsRecursive(letter) => \A e \in numbered : e[2] # p,
         \A e \in numbered : e[1] \in DOMAIN objectsMap' /\ objectsMap'[e[1]] = objectsMap[e[1]],
         IsRecursive(letter) => tell + 1 \in DOMAIN objectsMap' /\ objectsMap'[tell + 1] = <<made + 1>>,
         agenda' # <<>>, Head(agenda').do = "struct",
         NEW more, more = NumberedNow(letter, numbered, tell + 1, p)
  PROVE  NumberedAsTold(later, more)'
<1>1. PICK k0, e0 : k0 = made + 1 /\ e0 = <<tell + 1, p>>
  OBVIOUS
<1>2. e0[1] = tell + 1 /\ e0[2] = p /\ k0 \in Staying' /\ later[k0] = p
  BY <1>1
<1>3. IsRecursive(letter) <=> "checkRecursivePointers" \in sctx.flags
  BY DEF IsRecursive
<1>4. more = IF IsRecursive(letter) THEN numbered \cup {e0} ELSE numbered
  BY <1>1 DEF NumberedNow
<1>5. \A k \in Staying : k \in Staying' /\ later[k] = origin[k]
  OBVIOUS
<1>6. ASSUME NEW e \in numbered
      PROVE  /\ e[1] \in 2..tell' /\ e[1] \in DOMAIN objectsMap' /\ e[1] # tell'
             /\ \E k \in Staying' : objectsMap'[e[1]] = <<k>> /\ later[k] = e[2]
  <2>1. e[1] \in 2..tell /\ \E k \in Staying : objectsMap[e[1]] = <<k>> /\ origin[k] = e[2]
    BY DEF NumberedAsTold
  <2> QED  BY <1>5, <2>1
<1>7. IsRecursive(letter) =>
        /\ e0[1] \in 2..tell' /\ e0[1] \in DOMAIN objectsMap'
        /\ \E k \in Staying' : objectsMap'[e0[1]] = <<k>> /\ later[k] = e0[2]
  <2> SUFFICES ASSUME IsRecursive(letter)
               PROVE  /\ e0[1] \in 2..tell' /\ e0[1] \in DOMAIN objectsMap'
                      /\ objectsMap'[e0[1]] = <<k0>>
    BY <1>2
  <2>1. tell + 1 \in 2..tell' /\ tell + 1 \in DOMAIN objectsMap' /\ objectsMap'[tell + 1] = <<k0>>
    <3>1. tell + 1 \in 2..tell'
      OBVIOUS
    <3>2. tell + 1 \in DOMAIN objectsMap' /\ objectsMap'[tell + 1] = <<made + 1>>
      OBVIOUS
    <3> QED  BY <1>1, <3>1, <3>2
  <2> QED  BY <1>2, <2>1
<1>8. \A e \in more :
        /\ e[1] \in 2..tell' /\ e[1] \in DOMAIN objectsMap'
        /\ \E k \in Staying' : objectsMap'[e[1]] = <<k>> /\ later[k] = e[2]
        /\ e[1] = tell' => agenda' # <<>> /\ Head(agenda').do \notin {"array", "element", "convert"}
  BY <1>4, <1>6, <1>7
<1>9. ASSUME "checkRecursivePointers" \in sctx.flags
      PROVE  /\ \A k \in Staying' \ {0} : \E e \in more : e[2] = later[k]
             /\ \A k, l \in Staying' : later[k] = later[l] => k = l
  <2>1. more = numbered \cup {e0} /\ \A e \in numbered : e[2] # p
    BY <1>3, <1>4, <1>9
  <2>2. /\ \A k \in Staying \ {0} : \E e \in numbered : e[2] = origin[k]
        /\ \A k, l \in Staying : origin[k] = origin[l] => k = l
    BY <1>9 DEF NumberedAsTold
  <2>3. \A k \in Staying : origin[k] # p
    BY <2>1, <2>2
  <2>4. \A k \in Staying' : k \in Staying \/ k = k0
    BY <1>1
  <2>5. e0 \in more /\ \A e \in numbered : e \in more
    BY <2>1
  <2>6. ASSUME NEW k \in Staying' \ {0}
        PROVE  \E e \in more : e[2] = later[k]
    <3>1. CASE k \in Staying
      BY <1>5, <2>2, <2>5, <2>6, <3>1
    <3>2. CASE k = k0
      BY <1>2, <2>5, <3>2
    <3> QED  BY <2>4, <3>1, <3>2
  <2>7. ASSUME NEW k \in Staying', NEW l \in Staying', later[k] = later[l]
        PROVE  k = l
    <3>1. CASE k \in Staying /\ l \in Staying
      BY <1>5, <2>2, <2>7, <3>1
    <3>2. CASE k \in Staying /\ l = k0
      BY <1>2, <1>5, <2>3, <2>7, <3>2
    <3>3. CASE k = k0 /\ l \in Staying
      BY <1>2, <1>5, <2>3, <2>7, <3>3
    <3> QED  BY <2>4, <3>1, <3>2, <3>3
  <2> QED  BY <2>6, <2>7
<1> QED  BY <1>8, <1>9 DEF NumberedAsTold

(* A struct that is read into an object that was made                      *)
NewStruct(types, later, k, p, T, c, x) ==
  /\ UNCHANGED <<pair, sctx>> /\ later[k] = p /\ IsPlace(p)
  /\ p \in DOMAIN types /\ types[p] = T /\ c = sctx.version /\ Fits(reader, T, c)
  /\ x.do = "struct" /\ x.type = T /\ x.at = <<k>> /\ x.from = <<k>>
  /\ k \in (0..made') \ dead'
  /\ getBestCompatInterfaceVersion(reader, T, x.version, c) = VersionAt(reader, T, c)
  /\ \/ HandedOn(reader, T, x.version, c) = Lasting(reader, T, c)
     \/ k \in Passing' /\ x.version = VersionAt(reader, T, c)

(* A struct that begins is read as what was sent.                          *)
LEMMA NewStructReads ==
  ASSUME NEW types, NEW later, NEW k, NEW p, NEW T, NEW c, NEW x, NewStruct(types, later, k, p, T, c, x)
  PROVE  ItemReads(types, later, x)' /\ Sent(later, x.from) = p
<1>1. /\ UNCHANGED <<pair, sctx>> /\ later[k] = p /\ IsPlace(p)
      /\ p \in DOMAIN types /\ types[p] = T /\ c = sctx.version /\ Fits(reader, T, c)
      /\ x.do = "struct" /\ x.type = T /\ x.at = <<k>> /\ x.from = <<k>>
      /\ k \in (0..made') \ dead'
      /\ getBestCompatInterfaceVersion(reader, T, x.version, c) = VersionAt(reader, T, c)
      /\ \/ HandedOn(reader, T, x.version, c) = Lasting(reader, T, c)
         \/ k \in Passing' /\ x.version = VersionAt(reader, T, c)
  BY DEF NewStruct
<1>2. reader' = reader /\ sctx' = sctx
  BY <1>1 DEF reader
<1>3. Sent(later, <<k>>) = p
  BY <1>1, SentObject
<1>4. Sent(later, x.at) = p /\ Sent(later, x.from) = p /\ TypeOf(types, later, x.at) = T
  BY <1>3, <1>1 DEF TypeOf
<1>5. IsPlace(x.at) /\ x.at[1] = k /\ Len(x.at) = 1
  BY <1>1, ObjectIsPlace
<1>6. CanHold(reader, T)'
  BY <1>2, <1>1 DEF CanHold, Fits
<1>7. Stands(types, later, x.at)'
  BY <1>4, <1>5, <1>6, <1>1 DEF Stands
<1>8. k \in Passing' => IsTemporary(x.at)'
  BY <1>5 DEF IsTemporary
<1>9. StructReads(types, later, x)'
  BY <1>2, <1>4, <1>8, <1>1 DEF StructReads
<1> QED  BY <1>4, <1>7, <1>9, <1>1 DEF ItemReads, MemberKinds

(* Where a pointer that was sent leads to, there is an object.             *)
LEMMA PointeeSent ==
  ASSUME NEW types, TypedBy(writer, graph, types), PlainGraph, NEW c, c = sctx.version,
         Plain(writer, c), Plain(reader, c), SameStructs(writer, reader, c),
         NEW letter, IsLetter(letter, types), NEW from \in DOMAIN types, NEW T, T = types[from],
         Fits(reader, T, c), NEW m \in ToSet(MessageMembers(reader, T, c)), m.kind = "pointer",
         NEW p, p = PointerSent(letter, from, m.name), p # Null
  PROVE  /\ p \in DOMAIN types /\ types[p] = m.type /\ IsPlace(p) /\ Len(p) = 1 /\ p # Root
<1>1. PICK target : target = At(graph, Part(from, m.name, 1))
  OBVIOUS
<1>2. p = target
  BY <1>1, LetterHas
<1>3. p \in DOMAIN types /\ types[p] = m.type
  BY <1>1, <1>2, MemberIsTyped
<1>4. IsPlace(p)
  BY <1>3 DEF TypedBy
<1>5. \E slot \in DOMAIN graph : p = graph[slot]
  BY <1>1, <1>2 DEF At
<1> QED  BY <1>3, <1>4, <1>5 DEF PlainGraph

(* What a pointer to a new object does                                     *)
Makes(slot, item, m, x, k) ==
  /\ UNCHANGED <<pair, writerVars, dctx, dead>> /\ tell' = tell + 1
  /\ slot = Part(item.at, m.name, 1) /\ k = made + 1 /\ made' = k
  /\ memory' = With(memory, slot, <<k>>)
  /\ objectsMap' = IF "checkRecursivePointers" \in dctx.flags
                   THEN With(objectsMap, tell + 1, <<k>>) ELSE objectsMap
  /\ x = Latest(reader, m.type, <<k>>) /\ Continue(<<x>>)

(* A new object is made for the object that follows a prefix 1.            *)
LEMMA NewObjectTells ==
  ASSUME ReaderHas, PlainGraph, NEW types, TypedBy(writer, graph, types),
         NEW origin, NEW numbered, NEW opened, NEW letter, NEW c, NEW item, NEW rest,
         ReaderFinds(types, origin, numbered, opened, letter, c, item, rest),
         item.do = "pointer", NEW m, m = item.member, out[tell + 1][2] = 1,
         NEW slot, NEW x, NEW k, Makes(slot, item, m, x, k)
  PROVE  ReadAsTold(types)'
<1>1. PICK T, from, name, p, prefix, items :
        /\ T = TypeOf(types, origin, item.at) /\ from = Sent(origin, item.at) /\ name = m.name
        /\ p = PointerSent(letter, from, name) /\ prefix = out[tell + 1][2] /\ items = <<x>>
  OBVIOUS
<1>2. /\ c = sctx.version /\ IsLetter(letter, types) /\ phase = "read" /\ agenda # <<>>
      /\ item = Head(agenda) /\ letter = Letter(types)
      /\ Plain(writer, c) /\ Plain(reader, c) /\ SameStructs(writer, reader, c)
      /\ IsSequence(agenda) /\ IsSequence(rest) /\ ReaderKnows(types, origin, numbered, opened)
  BY DEF ReaderFinds
<1>3. /\ Origins(origin) /\ InTheirTime /\ MemoryAsTold(types, origin)
      /\ AllIsThere(types, origin, opened) /\ NumberedAsTold(origin, numbered)
  BY <1>2 DEF ReaderKnows
<1>4. /\ made \in Nat /\ dead \subseteq 1..made /\ tell \in Nat /\ tell >= 2 /\ IsBuild(reader)
      /\ dctx.flags = sctx.flags /\ dctx.version = sctx.version
  BY DEF ReaderHas, Header
<1>5. item.do \in MemberKinds
  BY DEF MemberKinds
<1>6. /\ Stands(types, origin, item.at) /\ item.from = item.at /\ item.do = m.kind
      /\ m \in ToSet(MessageMembers(reader, T, c)) /\ Fits(reader, T, c)
      /\ m.name \in Lasting(reader, T, c) \/ IsTemporary(item.at)
      /\ MemberInMessage(reader, dctx, m) /\ item.at[1] \in 0..made
      /\ types[from] = T /\ from \in DOMAIN types
  BY <1>1, <1>5, MemberReadsIs
<1>7. /\ p # Null
      /\ IsRecursive(letter) => \A e \in numbered : e[2] # p
      /\ Traces(letter, out,
                Tracing(First(StructAt(p), rest), tell + 1, NumberedNow(letter, numbered, tell + 1, p)),
                Tracing(<<>>, Len(out), Seen))
  <2>1. name = item.member.name /\ item.do = item.member.kind /\ prefix = 1
    BY <1>1, <1>6
  <2>2. /\ TellsOf(letter, numbered, prefix, p)
        /\ prefix = 1 =>
             Traces(letter, out,
                    Tracing(First(StructAt(p), rest), tell + 1, NumberedNow(letter, numbered, tell + 1, p)),
                    Tracing(<<>>, Len(out), Seen))
    BY <1>1, <1>6, <2>1, PointerIsTold
  <2> QED  BY <2>1, <2>2 DEF TellsOf
<1>8. p \in DOMAIN types /\ types[p] = m.type /\ IsPlace(p) /\ Len(p) = 1 /\ p # Root
  <2>1. m.kind = "pointer" /\ T = types[from] /\ p = PointerSent(letter, from, m.name)
    BY <1>1, <1>6
  <2> QED  BY <1>2, <1>6, <1>7, <2>1, PointeeSent
<1>9. /\ UNCHANGED <<pair, writerVars, dctx, dead>> /\ tell' = tell + 1
      /\ slot = Part(item.at, m.name, 1) /\ k = made + 1 /\ made' = k
      /\ memory' = With(memory, slot, <<k>>)
      /\ objectsMap' = IF "checkRecursivePointers" \in dctx.flags
                       THEN With(objectsMap, tell + 1, <<k>>) ELSE objectsMap
      /\ x = Latest(reader, m.type, <<k>>) /\ Continue(<<x>>)
  BY DEF Makes
<1>10. /\ UNCHANGED <<pair, graph, sctx, out, pointersMap>> /\ reader' = reader
       /\ made' = made + 1 /\ k \in 1..made' /\ k \notin dead'
  BY <1>4, <1>9 DEF writerVars, reader
<1>11. /\ x.do = "struct" /\ x.at = <<k>> /\ x.from = <<k>> /\ x.type = m.type
       /\ x.version = getLatestPrivateVersion(reader, m.type)
  BY <1>9, WholeIs DEF Latest
<1>12. IsItem(reader, dctx, made', x)
  <2>1. InMessage(reader, dctx, m.type)
    BY <1>6 DEF MemberInMessage
  <2>2. IsPlace(<<k>>)
    BY ObjectIsPlace
  <2> QED  BY <1>4, <1>9, <2>1, <2>2, LatestIsItem
<1>13. IsSequence(items) /\ Elements(items) = {x} /\ agenda' = items \o Tail(agenda) /\ phase' = phase
  BY <1>1, <1>9, AgendaOfOne DEF Continue
<1>14. Replaced(items)
  BY <1>2, <1>13 DEF Replaced
<1>15. PICK later : DOMAIN later = 0..made + 1 /\ later[made + 1] = p
                    /\ \A i \in 0..made : later[i] = origin[i]
  <2>1. made \in Nat
    BY <1>4
  <2> QED  BY ONLY <2>1, ExtendedBy
<1>16. Extended(origin, later, p)
  BY <1>4, <1>8, <1>9, <1>10, <1>15 DEF Extended
<1>17. Temporaries' = Temporaries
  <2>1. Head(agenda).do # "convert" /\ \A y \in Elements(items) : y.do # "convert"
    BY <1>2, <1>11, <1>13
  <2> QED  BY <1>14, <2>1, TemporariesChange
<1>18. /\ Staying' = Staying \cup {made + 1} /\ Passing' = Passing
       /\ Onward(origin, later) /\ Origins(later)'
  <2>1. Temporaries \subseteq 1..made
    BY <1>2, TemporariesAreMade
  <2> QED  BY <1>3, <1>8, <1>16, <1>17, <2>1, ExtendedToStay
<1>19. ItemReads(types, later, x)' /\ Sent(later, x.from) = p
  <2>1. PICK S : S = m.type
    OBVIOUS
  <2>2. /\ getBestCompatInterfaceVersion(reader, S, x.version, c) = VersionAt(reader, S, c)
        /\ HandedOn(reader, S, x.version, c) = Lasting(reader, S, c)
    BY <1>11, <2>1 DEF VersionAt, Lasting
  <2>3. Fits(reader, S, c)
    BY <1>2, <1>6, <2>1, MessageMembersAre
  <2>4. k \in (0..made') \ dead' /\ later[k] = p
    BY <1>9, <1>10, <1>15
  <2>5. NewStruct(types, later, k, p, S, c, x)
    BY <1>2, <1>8, <1>10, <1>11, <2>1, <2>2, <2>3, <2>4 DEF NewStruct
  <2> QED  BY <2>5, NewStructReads
<1>20. PICK more : more = NumberedNow(letter, numbered, tell + 1, p)
  OBVIOUS
<1>21. Traces(letter, out, Tracing(Then(Places(later, items), rest), tell', more),
              Tracing(<<>>, Len(out), Seen))
  <2>1. ItemPlaces(later, x) = <<StructAt(p)>> /\ Places(later, <<x>>) = ItemPlaces(later, x)
    BY <1>11, <1>19, PlacesOfStruct
  <2>2. PICK s : s = StructAt(p)
    OBVIOUS
  <2>3. Places(later, items) = <<s>>
    BY <1>1, <2>1, <2>2
  <2>4. Then(Places(later, items), rest) = First(s, rest)
    BY <1>2, <2>3, ThenIs
  <2> QED  BY <1>7, <1>9, <1>20, <2>2, <2>4
<1>22. /\ DOMAIN memory' = DOMAIN memory \cup {slot} /\ memory'[slot] = <<k>>
       /\ \A y \in DOMAIN memory' \ {slot} : y \in DOMAIN memory /\ memory'[y] = memory[y]
  BY <1>9 DEF With
<1>23. SlotIs(types, later, slot, item.at, m, memory[slot])'
  <2>1. PICK q, value : q = item.at /\ value = <<k>>
    OBVIOUS
  <2>2. Stands(types, later, q)' /\ Sent(later, q) = from /\ TypeOf(types, later, q) = T
    <3>1. Stands(types, origin, q) /\ q[1] \notin dead'
      BY <1>6, <1>9, <2>1 DEF Stands
    <3>2. /\ Stands(types, later, q)' /\ Sent(later, q) = Sent(origin, q)
          /\ TypeOf(types, later, q) = TypeOf(types, origin, q)
      BY <1>18, <3>1, StandsOn
    <3> QED  BY <1>1, <2>1, <3>2
  <2>3. HoldsAsTold(types, later, q, m, value)'
    <3>1. Letter(types)' = letter
      BY <1>2, <1>10 DEF Letter, writer
    <3>2. PointerSent(Letter(types)', Sent(later, q), m.name) = p
      BY <1>1, <2>2, <3>1
    <3>3. k \in Staying' /\ later[k] = p /\ m.kind = "pointer"
      BY <1>6, <1>9, <1>15, <1>18
    <3> QED  BY <1>7, <2>1, <3>2, <3>3 DEF HoldsAsTold
  <2>4. m.name \in Lasting(reader, T, c) \/ IsTemporary(q)'
    <3>1. IsTemporary(q) => IsTemporary(q)'
      BY <1>18, TemporaryOn
    <3> QED  BY <1>6, <2>1, <3>1
  <2>5. SlotIs(types, later, slot, q, m, value)'
    BY <1>2, <1>6, <1>9, <1>10, <2>1, <2>2, <2>3, <2>4 DEF SlotIs
  <2>6. memory'[slot] = value
    BY <1>22, <2>1
  <2> QED  BY <2>1, <2>5, <2>6
<1>24. MemoryAsTold(types, later)'
  <2>1. \A y \in DOMAIN memory' :
           \/ y \in DOMAIN memory /\ memory'[y] = memory[y]
           \/ \E q, i : SlotIs(types, later, y, q, i, memory[y])'
    BY <1>22, <1>23
  <2> QED  BY <1>3, <1>9, <1>18, <2>1, MemoryStill
<1>25. AllIsThere(types, later, opened)'
  <2>1. PICK head : head = Head(agenda)
    OBVIOUS
  <2>2. head.do # "convert" /\ head.do # "struct"
    BY <1>2, <2>1
  <2>3. head.do \in MemberKinds => MemberIsThere(opened, head.at, head.member)'
    <3>1. MemberIsThere(opened, item.at, m)'
      BY <1>6, <1>9, <1>22 DEF MemberIsThere
    <3> QED  BY <1>2, <2>1, <3>1
  <2>4. \A i \in Staying' \ Staying : IsThere(opened, <<i>>)'
    <3>1. PICK place : place = <<k>>
      OBVIOUS
    <3>2. x \in Elements(items) /\ x.do \in {"struct", "convert"} /\ place = x.at
      BY <1>11, <1>13, <3>1
    <3>3. IsThere(opened, place)'
      BY <1>14, <3>2, ComesNow
    <3> QED  BY <1>9, <1>18, <3>1, <3>3
  <2>5. \A y \in Elements(items) : y.do = "convert" => IsThere(opened, y.temporary)'
    BY <1>11, <1>13
  <2>6. DOMAIN memory \subseteq DOMAIN memory' /\ opened \subseteq opened /\ dead' = dead
    BY <1>9, <1>22
  <2> QED  BY <1>3, <1>14, <1>18, <2>1, <2>2, <2>3, <2>4, <2>5, <2>6, AllStillThere
<1>26. NumberedAsTold(later, more)'
  <2>1. agenda' # <<>> /\ Head(agenda').do = "struct"
    <3>1. agenda'[1] = x /\ agenda' # <<>>
      BY <1>1, <1>13
    <3>2. Head(agenda') = agenda'[1]
      BY HeadIs
    <3> QED  BY <1>11, <3>1, <3>2
  <2>2. IsRecursive(letter) <=> "checkRecursivePointers" \in dctx.flags
    BY <1>2, <1>4 DEF IsRecursive, IsLetter
  <2>3. \A e \in numbered : e[1] \in DOMAIN objectsMap /\ e[1] # tell + 1
    BY <1>3, <1>4 DEF NumberedAsTold
  <2>4. \A e \in numbered : e[1] \in DOMAIN objectsMap' /\ objectsMap'[e[1]] = objectsMap[e[1]]
    BY <1>9, <2>3 DEF With
  <2>5. IsRecursive(letter) => tell + 1 \in DOMAIN objectsMap' /\ objectsMap'[tell + 1] = <<made + 1>>
    BY <1>9, <2>2 DEF With
  <2>6. Staying \subseteq 0..made /\ origin[0] = Root /\ sctx' = sctx /\ letter.ctx = sctx
    BY <1>2, <1>3, <1>10 DEF Staying, Origins, IsLetter
  <2>7. IsRecursive(letter) => \A e \in numbered : e[2] # p
    BY <1>7
  <2> QED  BY <1>3, <1>4, <1>8, <1>9, <1>15, <1>18, <1>20, <2>1, <2>4, <2>5, <2>6, <2>7,
              NumberedWithNew
<1>27. InTheirTime'
  <2>1. \A y \in Elements(items) : y.do # "convert"
    BY <1>11, <1>13
  <2> QED  BY <1>3, <1>14, <2>1, TimeGoesOn
<1>28. /\ \A y \in Elements(items) : IsItem(reader, dctx, made', y)
       /\ \A y \in Elements(items) : ItemReads(types, later, y)'
  BY <1>12, <1>13, <1>19
<1>29. dead' = dead /\ phase' = "read"
  BY <1>2, <1>9, <1>13
<1>30. PICK n, there : n = made' /\ there = opened
  OBVIOUS
<1>31. (\A y \in Elements(items) : IsItem(reader, dctx, n, y)) /\ AllIsThere(types, later, there)'
  BY <1>25, <1>28, <1>30
<1> QED  BY <1>14, <1>18, <1>21, <1>24, <1>26, <1>27, <1>28, <1>29, <1>31, ReaderToldOn

(* deserialize of a pointer keeps what was told, whatever the prefix.      *)
LEMMA DeserializePointerTells ==
  ASSUME PlainStructs, OneHistory, ReadingInv, PlainGraph, NEW types, TypedBy(writer, graph, types),
         ReadAsTold(types), DeserializePointer
  PROVE  ReadAsTold(types)'
<1>1. PICK item, m, slot, prefix, k, x :
        /\ item = Head(agenda) /\ m = item.member /\ slot = Part(item.at, m.name, 1)
        /\ prefix = out[tell + 1][2] /\ k = made + 1 /\ x = Latest(reader, m.type, <<k>>)
  OBVIOUS
<1>2. /\ phase = "read" /\ agenda # <<>> /\ item.do = "pointer"
      /\ UNCHANGED <<pair, writerVars, dctx>>
  BY <1>1 DEF DeserializePointer, Doing
<1>3. CASE phase' = "idle"
  BY <1>3, StopTells
<1>4. CASE phase' # "idle"
  <2>1. PICK origin, numbered, opened, letter, c, rest :
          ReaderHas /\ ReaderFinds(types, origin, numbered, opened, letter, c, item, rest)
    BY <1>1, <1>2, ReaderFindsIt
  <2>2. /\ tell' = tell + 1
        /\ \/ /\ prefix = 0 /\ memory' = With(memory, slot, Null) /\ Continue(<<>>)
              /\ UNCHANGED <<objectsMap, made, dead>>
           \/ prefix = 1 /\ NewObject(slot, m.type)
           \/ prefix > 1 /\ KnownObject(slot, prefix)
    BY <1>1, <1>4 DEF DeserializePointer, Abandon, Stop, Read
  <2>3. NumberedAsTold(origin, numbered)
    BY <2>1 DEF ReaderFinds, ReaderKnows
  <2>4. CASE /\ prefix = 0 /\ memory' = With(memory, slot, Null) /\ Continue(<<>>)
             /\ UNCHANGED <<objectsMap, made, dead>>
    <3>1. PICK value : value = Null
      OBVIOUS
    <3>2. HoldsAsTold(types, origin, item.at, m, value)
      BY <1>1, <1>2, <2>1, <2>4, <3>1, PointerHolds
    <3>3. \A e \in numbered : e[1] \in DOMAIN objectsMap' /\ objectsMap'[e[1]] = objectsMap[e[1]]
      BY <2>3, <2>4, NumbersKept
    <3>4. memory' = With(memory, slot, value) /\ out[tell + 1][2] # 1
      BY <1>1, <2>4, <3>1
    <3> QED  BY <1>1, <1>2, <2>1, <2>2, <2>4, <3>2, <3>3, <3>4, PointerIsKept
  <2>5. CASE prefix = 1 /\ NewObject(slot, m.type)
    <3>1. Makes(slot, item, m, x, k)
      <4>1. tell' = tell + 1
        BY <2>2
      <4> QED  BY <1>1, <1>2, <1>4, <2>5, <4>1 DEF Makes, NewObject, Abandon, Stop
    <3>2. out[tell + 1][2] = 1
      BY <1>1, <2>5
    <3> QED  BY <1>1, <1>2, <2>1, <3>1, <3>2, NewObjectTells
  <2>6. CASE prefix > 1 /\ KnownObject(slot, prefix)
    <3>1. PICK value : value = At(objectsMap, prefix)
      OBVIOUS
    <3>2. /\ memory' = With(memory, slot, value) /\ objectsMap' = With(objectsMap, prefix, value)
          /\ Continue(<<>>) /\ dead' = dead /\ made' = made
      BY <1>4, <2>6, <3>1 DEF KnownObject, Abandon, Stop
    <3>3. prefix \in Int
      <4>1. PICK kind \in {"size", "flag"} : Expects(kind, 1)
        BY <1>4 DEF DeserializePointer, Abandon, Stop
      <4>2. BodyInv /\ 1 \in Nat /\ 1 \in 1..1
        BY DEF ReadingInv
      <4>3. IsToken(out[tell + 1]) /\ out[tell + 1][1] = kind
        BY <1>2, <4>1, <4>2, TokensExpected
      <4> QED  BY <1>1, <4>1, <4>3, TokenIs
    <3>4. HoldsAsTold(types, origin, item.at, m, value)
      BY <1>1, <1>2, <2>1, <2>6, <3>1, <3>3, PointerHolds
    <3>5. \A e \in numbered : e[1] \in DOMAIN objectsMap' /\ objectsMap'[e[1]] = objectsMap[e[1]]
      BY <2>3, <3>1, <3>2 DEF NumberedAsTold, With, At
    <3>6. out[tell + 1][2] # 1
      BY <1>1, <2>6, <3>3
    <3> QED  BY <1>1, <1>2, <2>1, <2>2, <3>2, <3>4, <3>5, <3>6, PointerIsKept
  <2> QED  BY <2>2, <2>4, <2>5, <2>6
<1> QED  BY <1>3, <1>4

-----------------------------------------------------------------------------
(* Conversions.                                                            *)

(* A temporary is made before it is read into, and then converted.         *)
LEMMA TemporaryTakesTime ==
  ASSUME NEW x, NEW y, NEW items, items = <<x, y>>, Replaced(items), InTheirTime,
         x.do = "struct", y.do = "convert", NEW k, y.temporary = <<k>>, y.at[1] # k,
         \A z \in Elements(agenda) : z.at[1] # k /\ (z.do = "convert" => z.temporary # <<k>>)
  PROVE  InTheirTime'
<1>1. /\ Len(agenda') = Len(items) + (Len(agenda) - 1) /\ Len(items) \in Nat /\ Len(agenda) \in Nat
      /\ \A i \in 1..Len(agenda') :
           agenda'[i] = IF i <= Len(items) THEN items[i] ELSE Tail(agenda)[i - Len(items)]
      /\ \A i \in 1..(Len(agenda) - 1) : Tail(agenda)[i] = agenda[i + 1]
  BY ReplacedIs
<1>2. Len(items) = 2 /\ items[1] = x /\ items[2] = y
  OBVIOUS
<1>3. /\ 1 \in 1..Len(agenda') => agenda'[1] = x
      /\ 2 \in 1..Len(agenda') => agenda'[2] = y
  BY <1>1, <1>2
<1>4. ASSUME NEW i \in 1..Len(agenda'), i > 2
      PROVE  i - 1 \in 1..Len(agenda) /\ agenda'[i] = agenda[i - 1] /\ agenda'[i] \in Elements(agenda)
  <2>1. i - 1 \in 1..Len(agenda) /\ agenda'[i] = agenda[i - 1]
    BY <1>1, <1>2, <1>4
  <2> QED  BY <2>1 DEF Elements
<1>5. ASSUME NEW i \in 1..Len(agenda'), NEW j \in 1..Len(agenda'), i <= j,
             agenda'[i].do = "convert"
      PROVE  /\ agenda'[j].at[1] # agenda'[i].temporary[1]
             /\ i < j /\ agenda'[j].do = "convert" => agenda'[j].temporary # agenda'[i].temporary
  <2>1. i # 1
    BY <1>3, <1>5
  <2>2. CASE i = 2
    <3>1. agenda'[i] = y /\ y.temporary[1] = k
      BY <1>3, <2>2
    <3>2. CASE j = 2
      BY <2>2, <3>1, <3>2
    <3>3. CASE j > 2
      <4>1. agenda'[j] \in Elements(agenda)
        BY <1>4, <3>3
      <4> QED  BY <3>1, <4>1
    <3> QED  BY <1>5, <2>2, <3>2, <3>3
  <2>3. CASE i > 2
    <3>1. PICK l, n : l = i - 1 /\ n = j - 1
      OBVIOUS
    <3>2. l \in 1..Len(agenda) /\ n \in 1..Len(agenda)
          /\ agenda'[i] = agenda[l] /\ agenda'[j] = agenda[n]
      BY <1>4, <1>5, <2>3, <3>1
    <3>3. l <= n /\ (i < j => l < n)
      BY <1>5, <3>1
    <3> QED  BY <1>5, <3>2, <3>3 DEF InTheirTime
  <2> QED  BY <2>1, <2>2, <2>3
<1> QED  BY <1>5 DEF InTheirTime

(* The numbers are of objects that are there to stay.                      *)
LEMMA NumberedAlike ==
  ASSUME NEW origin, NEW numbered, NumberedAsTold(origin, numbered)', NEW later,
         \A k \in Staying' : later[k] = origin[k]
  PROVE  NumberedAsTold(later, numbered)'
<1>1. /\ \A e \in numbered :
           /\ e[1] \in 2..tell' /\ e[1] \in DOMAIN objectsMap'
           /\ \E k \in Staying' : objectsMap'[e[1]] = <<k>> /\ origin[k] = e[2]
           /\ e[1] = tell' => agenda' # <<>> /\ Head(agenda').do \notin {"array", "element", "convert"}
      /\ "checkRecursivePointers" \in sctx'.flags =>
           /\ \A k \in Staying' \ {0} : \E e \in numbered : e[2] = origin[k]
           /\ \A k, l \in Staying' : origin[k] = origin[l] => k = l
  BY DEF NumberedAsTold
<1>2. \A e \in numbered : \E k \in Staying' : objectsMap'[e[1]] = <<k>> /\ later[k] = e[2]
  BY <1>1
<1>3. "checkRecursivePointers" \in sctx'.flags =>
        /\ \A k \in Staying' \ {0} : \E e \in numbered : e[2] = later[k]
        /\ \A k, l \in Staying' : later[k] = later[l] => k = l
  BY <1>1
<1> QED  BY <1>1, <1>2, <1>3 DEF NumberedAsTold

(* What the reader does with a struct of an older version                  *)
TakesOlder(item, T, V, c, chain, k, x, y) ==
  /\ UNCHANGED <<pair, writerVars, dctx, objectsMap, tell, memory, dead>>
  /\ T = item.type /\ V = VersionAt(reader, T, c) /\ V # item.version
  /\ chain = FromVersion(reader, T, item.version, V)
  /\ k = made + 1 /\ made' = k
  /\ x = Whole(reader, T, Head(chain), <<k>>, <<k>>)
  /\ y = [do |-> "convert", type |-> T, version |-> item.version,
          at |-> item.at, temporary |-> <<k>>, chain |-> chain]
  /\ Continue(<<x, y>>)

(* The older struct, and its conversion, as items                          *)
LEMMA OlderIs ==
  ASSUME ReaderHas, NEW types, TypedBy(writer, graph, types), NEW origin, NEW numbered, NEW opened,
         NEW letter, NEW c, NEW item, NEW rest,
         ReaderFinds(types, origin, numbered, opened, letter, c, item, rest), item.do = "struct",
         NEW T, NEW V, NEW chain, NEW k, NEW x, NEW y, TakesOlder(item, T, V, c, chain, k, x, y)
  PROVE  /\ x.do = "struct" /\ x.type = T /\ x.version = V /\ x.at = <<k>> /\ x.from = <<k>>
         /\ y.do = "convert" /\ y.type = T /\ y.at = item.at /\ y.temporary = <<k>>
         /\ IsItem(reader, dctx, made', x) /\ IsItem(reader, dctx, made', y)
         /\ HandedOn(reader, T, item.version, c) = Lasting(reader, T, c)
         /\ Handed(reader, T, Append(y.chain, y.version)) = Lasting(reader, T, c)
<1>1. /\ made' = k /\ k = made + 1
      /\ T = item.type /\ V = VersionAt(reader, T, c) /\ V # item.version
      /\ chain = FromVersion(reader, T, item.version, V)
      /\ x = Whole(reader, T, Head(chain), <<k>>, <<k>>)
      /\ y = [do |-> "convert", type |-> T, version |-> item.version,
              at |-> item.at, temporary |-> <<k>>, chain |-> chain]
  BY DEF TakesOlder
<1>2. /\ IsBuild(reader) /\ dctx \in Contexts /\ made \in Nat /\ Plain(reader, c)
  BY DEF ReaderHas, ReaderFinds
<1>3. /\ IsPlace(item.at) /\ Fits(reader, T, c) /\ item.version \in ToSet(reader.private[T])
      /\ StructInMessage(reader, dctx, T, item.version)
      /\ VersionInMessage(reader, item, dctx) = V
      /\ getBestCompatInterfaceVersion(reader, T, item.version, c) = V
      /\ HandedOn(reader, T, item.version, c) = Lasting(reader, T, c)
  BY <1>1, StructReadsIs
<1>4. /\ V \in ToSet(reader.private[T]) /\ dctx.notMatch /\ V < item.version
      /\ T \in DOMAIN reader.private
  BY <1>1, <1>2, <1>3, MessageVersion
<1>5. Head(chain) = V
  BY <1>1, <1>2, <1>3, <1>4, VersionsUp
<1>6. StructInMessage(reader, dctx, T, V)
  BY <1>3, <1>4 DEF StructInMessage
<1>7. IsPlace(<<k>>)
  BY ObjectIsPlace
<1>8. /\ x.do = "struct" /\ x.type = T /\ x.version = V /\ x.at = <<k>> /\ x.from = <<k>>
  BY <1>1, <1>5, WholeIs
<1>9. IsItem(reader, dctx, made', x)
  BY <1>1, <1>5, <1>6, <1>7, StructIsItem DEF Whole
<1>10. y.do = "convert" /\ y.type = T /\ y.at = item.at /\ y.temporary = <<k>>
       /\ y.chain = chain /\ y.version = item.version
  BY <1>1
<1>11. k \in 1..made'
  BY <1>1, <1>2
<1>12. IsItem(reader, dctx, made', y)
  BY <1>1, <1>3, <1>4, <1>11 DEF IsItem
<1>13. Handed(reader, T, Append(chain, item.version)) = HandedOn(reader, T, item.version, c)
  <2>1. PICK v : v = item.version
    OBVIOUS
  <2>2. /\ V = getBestCompatInterfaceVersion(reader, T, v, c) /\ V = VersionAt(reader, T, c) /\ V # v
        /\ v \in ToSet(reader.private[T]) /\ chain = FromVersion(reader, T, v, V)
    BY <1>1, <1>3, <2>1
  <2>3. Handed(reader, T, Append(chain, v)) = HandedOn(reader, T, v, c)
    BY <1>2, <1>3, <2>2, HandedUp
  <2> QED  BY <2>1, <2>3
<1> QED  BY <1>3, <1>8, <1>9, <1>10, <1>12, <1>13

(* Two items, one after the other                                          *)
LEMMA TwoOfThem ==
  ASSUME NEW x, NEW y
  PROVE  <<x, y>> = <<x>> \o <<y>>
<1>1. PICK s, t, u : s = <<x>> /\ t = <<y>> /\ u = <<x, y>>
  OBVIOUS
<1>2. Len(s) = 1 /\ Len(t) = 1 /\ s[1] = x /\ t[1] = y /\ IsSequence(s) /\ IsSequence(t)
      /\ IsSequence(u) /\ Len(u) = 2 /\ u[1] = x /\ u[2] = y
  BY <1>1 DEF IsSequence
<1>3. IsSequence(s \o t) /\ Len(s \o t) = 2 /\ (s \o t)[1] = x /\ (s \o t)[2] = y
  BY <1>2, Concatenated
<1>4. s \o t = u
  BY <1>2, <1>3 DEF IsSequence
<1> QED  BY <1>1, <1>4

(* A struct of an older version is read into a temporary.                  *)
LEMMA OlderTells ==
  ASSUME ReaderHas, NEW types, TypedBy(writer, graph, types),
         NEW origin, NEW numbered, NEW opened, NEW letter, NEW c, NEW item, NEW rest,
         ReaderFinds(types, origin, numbered, opened, letter, c, item, rest), item.do = "struct",
         NEW T, NEW V, NEW chain, NEW k, NEW x, NEW y, TakesOlder(item, T, V, c, chain, k, x, y)
  PROVE  ReadAsTold(types)'
<1>1. PICK p, items : p = Sent(origin, item.at) /\ items = <<x, y>>
  OBVIOUS
<1>2. /\ c = sctx.version /\ phase = "read" /\ agenda # <<>> /\ item = Head(agenda)
      /\ Plain(writer, c) /\ Plain(reader, c)
      /\ IsSequence(agenda) /\ IsSequence(rest) /\ ReaderKnows(types, origin, numbered, opened)
      /\ Traces(letter, out, Tracing(Then(ItemPlaces(origin, item), rest), tell, numbered),
                Tracing(<<>>, Len(out), Seen))
  BY DEF ReaderFinds
<1>3. /\ Origins(origin) /\ InTheirTime /\ MemoryAsTold(types, origin)
      /\ AllIsThere(types, origin, opened) /\ NumberedAsTold(origin, numbered)
      /\ \A z \in Elements(agenda) : ItemReads(types, origin, z)
  BY <1>2 DEF ReaderKnows
<1>4. /\ made \in Nat /\ dead \subseteq 1..made /\ tell \in Nat
      /\ \A z \in Elements(agenda) : IsItem(reader, dctx, made, z) /\ z.at[1] \in 0..made
  BY DEF ReaderHas
<1>5. /\ UNCHANGED <<pair, writerVars, dctx, objectsMap, tell, memory, dead>>
      /\ k = made + 1 /\ made' = k /\ V = VersionAt(reader, T, c) /\ T = item.type
      /\ Continue(<<x, y>>)
  BY DEF TakesOlder
<1>6. /\ UNCHANGED <<pair, graph, sctx, out, pointersMap>> /\ reader' = reader
  BY <1>5 DEF writerVars, reader
<1>7. /\ Stands(types, origin, item.at) /\ item.from = item.at
      /\ TypeOf(types, origin, item.at) = T /\ types[p] = T /\ p \in DOMAIN types
      /\ IsPlace(item.at) /\ item.at[1] \in 0..made /\ Fits(reader, T, c)
      /\ V \in ToSet(reader.private[T])
      /\ getBestCompatInterfaceVersion(reader, T, V, c) = V
  <2>1. /\ Stands(types, origin, item.at) /\ item.from = item.at
        /\ TypeOf(types, origin, item.at) = T /\ types[Sent(origin, item.at)] = T
        /\ Sent(origin, item.at) \in DOMAIN types
        /\ IsPlace(item.at) /\ item.at[1] \in 0..made /\ Fits(reader, T, c)
    BY <1>5, StructReadsIs
  <2>2. V \in ToSet(reader.private[T]) /\ getBestCompatInterfaceVersion(reader, T, V, c) = V
    BY <1>2, <1>5, <2>1, VersionAtIs
  <2> QED  BY <1>1, <2>1, <2>2
<1>8. IsPlace(p)
  BY <1>7 DEF TypedBy
<1>9. /\ x.do = "struct" /\ x.type = T /\ x.version = V /\ x.at = <<k>> /\ x.from = <<k>>
      /\ y.do = "convert" /\ y.type = T /\ y.at = item.at /\ y.temporary = <<k>>
      /\ IsItem(reader, dctx, made', x) /\ IsItem(reader, dctx, made', y)
      /\ HandedOn(reader, T, item.version, c) = Lasting(reader, T, c)
      /\ Handed(reader, T, Append(y.chain, y.version)) = Lasting(reader, T, c)
  BY OlderIs
<1>10. IsSequence(items) /\ Elements(items) = {x, y} /\ Len(items) = 2
       /\ items[1] = x /\ items[2] = y
       /\ agenda' = items \o Tail(agenda) /\ phase' = phase
  BY <1>1, <1>5 DEF Continue, IsSequence, Elements
<1>11. Replaced(items)
  BY <1>2, <1>10 DEF Replaced
<1>12. PICK later : DOMAIN later = 0..made + 1 /\ later[made + 1] = p
                    /\ \A i \in 0..made : later[i] = origin[i]
  <2>1. made \in Nat
    BY <1>4
  <2> QED  BY ONLY <2>1, ExtendedBy
<1>13. Extended(origin, later, p)
  BY <1>4, <1>5, <1>6, <1>8, <1>12 DEF Extended
<1>14. Temporaries \subseteq 1..made /\ Temporaries \cap dead = {}
  BY <1>2, TemporariesAreMade
<1>15. Temporaries' = Temporaries \cup {made + 1}
  <2>1. Temporaries = TemporariesOf(agenda) /\ Temporaries' = TemporariesOf(agenda')
    BY <1>11, TemporariesChange
  <2>2. /\ Elements(agenda') = Elements(items) \cup Elements(Tail(agenda))
        /\ Elements(agenda) = {Head(agenda)} \cup Elements(Tail(agenda))
    BY <1>11, ReplacedIs
  <2>3. TemporariesOf(agenda) = {z.temporary[1] : z \in {w \in Elements(Tail(agenda)) : w.do = "convert"}}
    <3>1. {w \in Elements(agenda) : w.do = "convert"} = {w \in Elements(Tail(agenda)) : w.do = "convert"}
      BY <1>2, <2>2
    <3> QED  BY <3>1 DEF TemporariesOf
  <2>4. {w \in Elements(agenda') : w.do = "convert"}
          = {y} \cup {w \in Elements(Tail(agenda)) : w.do = "convert"}
    BY <1>9, <1>10, <2>2
  <2>5. y.temporary[1] = made + 1
    BY <1>5, <1>9
  <2> QED  BY <2>1, <2>3, <2>4, <2>5 DEF TemporariesOf
<1>16. /\ Staying' = Staying /\ Passing' = Passing \cup {made + 1}
       /\ Onward(origin, later) /\ Origins(later)'
  BY <1>3, <1>13, <1>14, <1>15, ExtendedForNow
<1>17. k \in (0..made') \ dead' /\ k \in (1..made') \ dead' /\ k \in Passing' /\ later[k] = p
  BY <1>4, <1>5, <1>12, <1>16
<1>18. ItemReads(types, later, x)' /\ Sent(later, x.from) = p
  <2>1. NewStruct(types, later, k, p, T, c, x)
    BY <1>2, <1>5, <1>6, <1>7, <1>8, <1>9, <1>17 DEF NewStruct
  <2> QED  BY <2>1, NewStructReads
<1>19. ItemReads(types, later, y)'
  <2>1. PICK q : q = item.at
    OBVIOUS
  <2>2. Stands(types, origin, q) /\ q[1] \notin dead'
    BY <1>5, <1>7, <2>1 DEF Stands
  <2>3. /\ Stands(types, later, q)' /\ Sent(later, q) = Sent(origin, q)
        /\ TypeOf(types, later, q) = TypeOf(types, origin, q)
    BY <1>16, <2>2, StandsOn
  <2>4. Stands(types, later, y.at)' /\ Sent(later, y.at) = p /\ TypeOf(types, later, y.at) = T
    BY <1>1, <1>7, <1>9, <2>1, <2>3
  <2>5. y.temporary[1] = k
    BY <1>9
  <2>6. ConvertReads(types, later, y)'
    BY <1>2, <1>6, <1>9, <1>17, <2>4, <2>5 DEF ConvertReads
  <2> QED  BY <1>9, <2>4, <2>6 DEF ItemReads, MemberKinds
<1>20. Places(later, items) = <<StructAt(p)>> /\ ItemPlaces(origin, item) = <<StructAt(p)>>
  <2>1. ItemPlaces(later, x) = <<StructAt(p)>> /\ Placed(later, <<x>>)
        /\ Places(later, <<x>>) = <<StructAt(p)>>
    BY <1>9, <1>18, PlacesOfStruct
  <2>2. ItemPlaces(later, y) = <<>>
    BY <1>9 DEF ItemPlaces, MemberKinds
  <2>3. IsSequence(ItemPlaces(later, y))
    BY <2>2 DEF IsSequence
  <2>4. Placed(later, <<y>>) /\ Places(later, <<y>>) = <<>>
    BY <2>2, <2>3, PlacesOfOne
  <2>5. PICK s, t : s = <<x>> /\ t = <<y>>
    OBVIOUS
  <2>6. items = s \o t
    <3>1. <<x, y>> = <<x>> \o <<y>>
      BY TwoOfThem
    <3> QED  BY <1>1, <2>5, <3>1
  <2>7. Places(later, s \o t) = Places(later, s) \o Places(later, t)
    BY <2>1, <2>4, <2>5, PlacesConcat
  <2>8. Places(later, items) = <<StructAt(p)>> \o <<>>
    BY <2>1, <2>4, <2>5, <2>6, <2>7
  <2>9. ItemPlaces(origin, item) = <<StructAt(p)>>
    BY <1>1, <1>7, PlacesOfStruct
  <2> QED  BY <2>8, <2>9
<1>21. Traces(letter, out, Tracing(Then(Places(later, items), rest), tell', numbered),
              Tracing(<<>>, Len(out), Seen))
  BY <1>2, <1>5, <1>20
<1>22. MemoryAsTold(types, later)'
  <2>1. \A slot \in DOMAIN memory' :
           \/ slot \in DOMAIN memory /\ memory'[slot] = memory[slot]
           \/ \E q, m : SlotIs(types, later, slot, q, m, memory[slot])'
    BY <1>5
  <2> QED  BY <1>3, <1>5, <1>16, <2>1, MemoryStill
<1>23. AllIsThere(types, later, opened)'
  <2>1. PICK head : head = Head(agenda)
    OBVIOUS
  <2>2. IsThere(opened, head.at)'
    <3>1. PICK place : place = head.at
      OBVIOUS
    <3>2. y \in Elements(items) /\ y.do \in {"struct", "convert"} /\ place = y.at
      BY <1>2, <1>9, <1>10, <2>1, <3>1
    <3>3. IsThere(opened, place)'
      BY <1>11, <3>2, ComesNow
    <3> QED  BY <3>1, <3>3
  <2>3. IsThere(opened, y.temporary)'
    <3>1. PICK place : place = y.temporary
      OBVIOUS
    <3>2. x \in Elements(items) /\ x.do \in {"struct", "convert"} /\ place = x.at
      BY <1>9, <1>10, <3>1
    <3>3. IsThere(opened, place)'
      BY <1>11, <3>2, ComesNow
    <3> QED  BY <3>1, <3>3
  <2>4. \A z \in Elements(items) : z.do = "convert" => IsThere(opened, z.temporary)'
    BY <1>9, <1>10, <2>3
  <2>5. head.do = "struct" /\ head.do \notin MemberKinds /\ head.do # "convert"
    BY <1>2, <2>1 DEF MemberKinds
  <2>6. DOMAIN memory \subseteq DOMAIN memory' /\ opened \subseteq opened /\ dead' = dead
        /\ \A z \in opened \ opened : IsOpened(types, later, opened, z)'
        /\ \A i \in Staying' \ Staying : IsThere(opened, <<i>>)'
    BY <1>5, <1>16
  <2> QED  BY <1>3, <1>11, <1>16, <2>1, <2>2, <2>4, <2>5, <2>6, AllStillThere
<1>24. NumberedAsTold(later, numbered)'
  <2>1. agenda' # <<>> /\ Head(agenda').do = "struct"
    <3>1. agenda'[1] = x /\ agenda' # <<>>
      BY <1>1, <1>10
    <3>2. Head(agenda') = agenda'[1]
      BY HeadIs
    <3> QED  BY <1>9, <3>1, <3>2
  <2>2. \A e \in numbered : e[1] \in DOMAIN objectsMap' /\ objectsMap'[e[1]] = objectsMap[e[1]]
    BY <1>3, <1>5, NumbersKept
  <2>3. tell' = tell => \A e \in numbered : e[1] = tell =>
          agenda' # <<>> /\ Head(agenda').do \notin {"array", "element", "convert"}
    BY <2>1
  <2>4. NumberedAsTold(origin, numbered)'
    BY <1>3, <1>4, <1>5, <1>6, <1>16, <2>2, <2>3, NumberedStill
  <2>5. \A i \in Staying' : later[i] = origin[i]
    BY <1>12, <1>16 DEF Staying
  <2> QED  BY <2>4, <2>5, NumberedAlike
<1>25. InTheirTime'
  <2>1. \A z \in Elements(agenda) : z.at[1] # k /\ (z.do = "convert" => z.temporary # <<k>>)
    <3> TAKE z \in Elements(agenda)
    <3>1. z.at[1] # k
      BY <1>4, <1>5
    <3>2. z.do = "convert" => z.temporary[1] \in 1..made
      BY <1>3 DEF ItemReads, ConvertReads
    <3> QED  BY <1>4, <1>5, <3>1, <3>2
  <2>2. y.at[1] # k
    BY <1>4, <1>5, <1>7, <1>9
  <2> QED  BY <1>1, <1>3, <1>9, <1>11, <2>1, <2>2, TemporaryTakesTime
<1>26. /\ \A z \in Elements(items) : IsItem(reader, dctx, made', z)
       /\ \A z \in Elements(items) : ItemReads(types, later, z)'
  BY <1>9, <1>10, <1>18, <1>19
<1>27. dead' = dead /\ phase' = "read"
  BY <1>2, <1>5, <1>10
<1>28. PICK n, there, more : n = made' /\ there = opened /\ more = numbered
  OBVIOUS
<1>29. /\ \A z \in Elements(items) : IsItem(reader, dctx, n, z)
       /\ AllIsThere(types, later, there)' /\ NumberedAsTold(later, more)'
       /\ Traces(letter, out, Tracing(Then(Places(later, items), rest), tell', more),
                 Tracing(<<>>, Len(out), Seen))
  BY <1>21, <1>23, <1>24, <1>26, <1>28
<1> QED  BY <1>11, <1>16, <1>22, <1>25, <1>26, <1>27, <1>29, ReaderToldOn

(* fromOldStruct reads into a temporary what its struct becomes.           *)
LEMMA FromOldStructTells ==
  ASSUME PlainStructs, OneHistory, ReadingInv, NEW types, TypedBy(writer, graph, types),
         ReadAsTold(types), FromOldStruct
  PROVE  ReadAsTold(types)'
<1>1. PICK item, T, V, chain, k :
        /\ item = Head(agenda) /\ T = item.type /\ V = VersionInMessage(reader, item, dctx)
        /\ chain = FromVersion(reader, item.type, item.version, V) /\ k = made + 1
  OBVIOUS
<1>2. PICK x, y :
        /\ x = Whole(reader, T, Head(chain), <<k>>, <<k>>)
        /\ y = [do |-> "convert", type |-> T, version |-> item.version,
                at |-> item.at, temporary |-> <<k>>, chain |-> chain]
  OBVIOUS
<1>3. /\ phase = "read" /\ agenda # <<>> /\ item.do = "struct" /\ V # item.version
      /\ UNCHANGED <<pair, writerVars, dctx, objectsMap, tell, memory>>
      /\ \/ Continue(<<x, y>>) /\ made' = made + 1 /\ UNCHANGED dead
         \/ Abandon("no memory")
  BY <1>1, <1>2 DEF FromOldStruct, Doing
<1>4. CASE Abandon("no memory")
  <2>1. phase' = "idle"
    BY <1>4 DEF Abandon, Stop
  <2> QED  BY <2>1, StopTells
<1>5. CASE Continue(<<x, y>>) /\ made' = made + 1 /\ UNCHANGED dead
  <2>1. PICK origin, numbered, opened, letter, c, rest :
          ReaderHas /\ ReaderFinds(types, origin, numbered, opened, letter, c, item, rest)
    BY <1>1, <1>3, ReaderFindsIt
  <2>2. PICK W : W = VersionAt(reader, T, c)
    OBVIOUS
  <2>3. VersionInMessage(reader, item, dctx) = W
    <3>1. T = item.type /\ item.do = "struct"
      BY <1>1, <1>3
    <3> QED  BY <2>1, <2>2, <3>1, StructReadsIs
  <2>4. TakesOlder(item, T, V, c, chain, k, x, y)
    BY <1>1, <1>2, <1>3, <1>5, <2>2, <2>3 DEF TakesOlder
  <2> QED  BY <1>3, <2>1, <2>4, OlderTells
<1> QED  BY <1>3, <1>4, <1>5

(* What stands in a temporary will stand in the place of its struct.       *)
Moved(p, place) == place \o Tail(p)

(* What a place that moved is                                              *)
LEMMA MovedIs ==
  ASSUME NEW p, IsPlace(p), NEW place, IsPlace(place), NEW name, NEW j
  PROVE  /\ Moved(Part(p, name, j), place) = Part(Moved(p, place), name, j)
         /\ IsPlace(Moved(p, place)) /\ Moved(p, place)[1] = place[1]
<1>1. PICK f : f = [k \in {p[1]} |-> place]
  OBVIOUS
<1>2. f[p[1]] = place /\ Part(p, name, j)[1] = p[1]
  BY <1>1, PartIsPlace
<1>3. Sent(f, p) = Moved(p, place) /\ Sent(f, Part(p, name, j)) = Moved(Part(p, name, j), place)
  BY <1>2 DEF Sent, Moved
<1>4. /\ Sent(f, Part(p, name, j)) = Part(Sent(f, p), name, j)
      /\ IsPlace(Sent(f, p)) /\ Sent(f, p)[1] = f[p[1]][1]
  BY <1>2, SentPart
<1> QED  BY <1>2, <1>3, <1>4

(* It comes from where it did.                                             *)
LEMMA SentMoved ==
  ASSUME NEW origin, NEW p, IsPlace(p), NEW place, IsPlace(place), IsPlace(origin[place[1]]),
         Sent(origin, place) = origin[p[1]]
  PROVE  Sent(origin, Moved(p, place)) = Sent(origin, p)
<1>1. PICK o, a, t, u : o = origin[place[1]] /\ a = place[1] /\ t = Tail(p) /\ u = Tail(place)
  OBVIOUS
<1>2. IsSequence(o) /\ IsSequence(t) /\ IsSequence(u) /\ place = <<a>> \o u /\ IsSequence(<<a>>)
  BY <1>1, TailElements, HeadIs, AgendaOfOne DEF IsPlace
<1>3. Moved(p, place) = <<a>> \o (u \o t) /\ IsSequence(u \o t)
  <2>1. (<<a>> \o u) \o t = <<a>> \o (u \o t)
    BY <1>2, Associates
  <2>2. Moved(p, place) = place \o t
    BY <1>1 DEF Moved
  <2>3. IsSequence(u \o t)
    BY <1>2, Concatenated
  <2> QED  BY <1>2, <2>1, <2>2, <2>3
<1>4. Tail(Moved(p, place)) = u \o t
  BY <1>3, FirstOf
<1>5. Moved(p, place)[1] = a
  BY <1>1, MovedIs
<1>6. Sent(origin, Moved(p, place)) = o \o (u \o t)
  BY <1>1, <1>4, <1>5 DEF Sent
<1>7. (o \o u) \o t = o \o (u \o t)
  BY ONLY <1>2, Associates
<1>8. Sent(origin, place) = o \o u /\ Sent(origin, p) = origin[p[1]] \o t
  BY <1>1 DEF Sent
<1> QED  BY <1>6, <1>7, <1>8

(* The slots of an object start with it.                                   *)
LEMMA StartsWithObject ==
  ASSUME NEW s, IsPlace(s), NEW k
  PROVE  /\ StartsWith(s, <<k>>) <=> Len(s) > 1 /\ s[1] = k
         /\ Len(s) > 1 => SubSeq(s, 2, Len(s)) = Tail(s)
<1>1. IsSequence(s) /\ s # <<>> /\ Len(s) \in Nat /\ Len(s) >= 1
  BY TailElements DEF IsPlace, IsSequence
<1>2. PICK S : S = Elements(s)
  OBVIOUS
<1>3. s \in Seq(S)
  BY <1>1, <1>2, SequenceOfElements
<1>4. SubSeq(s, 1, 1) = <<s[1]>>
  <2>1. SubSeq(s, 1, 1) \in Seq(S) /\ Len(SubSeq(s, 1, 1)) = 1 /\ SubSeq(s, 1, 1)[1] = s[1]
    BY <1>1, <1>3
  <2>2. PICK u, w : u = SubSeq(s, 1, 1) /\ w = <<s[1]>>
    OBVIOUS
  <2>3. IsSequence(u) /\ Len(u) = 1 /\ u[1] = s[1]
    BY <2>1, <2>2, SequenceIs
  <2>4. IsSequence(w) /\ Len(w) = 1 /\ w[1] = s[1]
    BY <2>2 DEF IsSequence
  <2>5. u = w
    BY <2>3, <2>4 DEF IsSequence
  <2> QED  BY <2>2, <2>5
<1>5. Len(<<k>>) = 1 /\ (<<s[1]>> = <<k>> <=> s[1] = k)
  OBVIOUS
<1>6. Len(s) > 1 => SubSeq(s, 2, Len(s)) = Tail(s)
  BY <1>1, <1>3
<1> QED  BY <1>1, <1>4, <1>5, <1>6 DEF StartsWith

(* What is in memory after a conversion, and where it was before           *)
LEMMA ConvertedHas ==
  ASSUME NEW item, NEW place, place = item.at, IsPlace(place), NEW k, item.temporary = <<k>>,
         NEW names, names = Handed(reader, item.type, Append(item.chain, item.version)),
         \A slot \in DOMAIN memory : IsPlace(slot) /\ Len(slot) > 1,
         NEW converted, converted = Converted(item)
  PROVE  /\ \A s \in DOMAIN memory : s[1] # k => s \in DOMAIN converted
         /\ \A s \in DOMAIN memory : s[1] = k /\ s[2] \in names => Moved(s, place) \in DOMAIN converted
         /\ \A slot \in DOMAIN converted :
              \/ slot \in DOMAIN memory /\ slot[1] # k /\ converted[slot] = memory[slot]
              \/ \E s \in DOMAIN memory :
                   /\ s[1] = k /\ s[2] \in names /\ slot = Moved(s, place)
                   /\ converted[slot] = memory[s]
<1> DEFINE read == {slot \in DOMAIN memory : StartsWith(slot, item.temporary)}
           carried == {slot \in read : slot[Len(item.temporary) + 1] \in names}
           source(slot) == item.temporary \o SubSeq(slot, Len(item.at) + 1, Len(slot))
           new == {item.at \o SubSeq(slot, Len(item.temporary) + 1, Len(slot)) : slot \in carried}
<1>1. converted = [slot \in (DOMAIN memory \ read) \cup new |->
                     IF slot \in new THEN memory[source(slot)] ELSE memory[slot]]
  BY DEF Converted
<1>2. Len(item.temporary) + 1 = 2
  BY AgendaOfOne
<1>3. \A s : s \in read <=> s \in DOMAIN memory /\ s[1] = k
  BY StartsWithObject
<1>4. \A s : s \in carried <=> s \in DOMAIN memory /\ s[1] = k /\ s[2] \in names
  BY <1>2, <1>3
<1> HIDE DEF read, source
<1>5. \A slot : slot \in new <=> \E s \in carried : slot = Moved(s, place)
  <2>1. \A s \in carried : item.at \o SubSeq(s, Len(item.temporary) + 1, Len(s)) = Moved(s, place)
    <3> TAKE s \in carried
    <3>1. SubSeq(s, 2, Len(s)) = Tail(s)
      BY <1>4, StartsWithObject
    <3> QED  BY <1>2, <3>1 DEF Moved
  <2> HIDE DEF carried
  <2> QED  BY <2>1
<1> HIDE DEF carried, new
<1>6. ASSUME NEW s \in carried
      PROVE  source(Moved(s, place)) = s
  <2>1. PICK q, r : q = Moved(s, place) /\ r = source(q)
    OBVIOUS
  <2>2. s \in DOMAIN memory /\ s[1] = k /\ IsPlace(s) /\ Len(s) > 1
    BY <1>4
  <2>3. StartsWith(s, <<k>>) /\ SubSeq(s, 2, Len(s)) = Tail(s)
    BY <2>2, StartsWithObject
  <2>4. IsCarried(s, item.temporary, place, q, r)
    BY <2>1, <2>3 DEF IsCarried, Moved, source
  <2>5. PICK t : t = item.temporary
    OBVIOUS
  <2>6. r = s
    BY <2>2, <2>3, <2>4, <2>5, Carried
  <2> QED  BY <2>1, <2>6
<1>7. \A s \in DOMAIN memory : s[1] # k => s \in DOMAIN converted
  BY <1>1, <1>3
<1>8. \A s \in DOMAIN memory : s[1] = k /\ s[2] \in names => Moved(s, place) \in DOMAIN converted
  BY <1>1, <1>4, <1>5
<1>9. ASSUME NEW slot \in DOMAIN converted
      PROVE  \/ slot \in DOMAIN memory /\ slot[1] # k /\ converted[slot] = memory[slot]
             \/ \E s \in DOMAIN memory :
                  /\ s[1] = k /\ s[2] \in names /\ slot = Moved(s, place)
                  /\ converted[slot] = memory[s]
  <2>1. CASE slot \in new
    <3>1. PICK s \in carried : slot = Moved(s, place)
      BY <1>5, <2>1
    <3>2. converted[slot] = memory[source(slot)]
      BY <1>1, <2>1
    <3>3. source(slot) = s
      BY <1>6, <3>1
    <3> QED  BY <1>4, <3>1, <3>2, <3>3
  <2>2. CASE slot \notin new
    BY <1>1, <1>3, <2>2
  <2> QED  BY <2>1, <2>2
<1> QED  BY <1>7, <1>8, <1>9

(* A conversion, and what is known of its temporary                        *)
Moves(types, origin, item, place, k, T, names) ==
  /\ UNCHANGED <<pair, writerVars, dctx, objectsMap, tell, made, phase>>
  /\ made \in Nat /\ k \in (1..made) \ dead /\ dead' = dead \cup {k}
  /\ Replaced(<<>>) /\ item = Head(agenda) /\ item.do = "convert" /\ item.type = T
  /\ item.at = place /\ IsPlace(place) /\ item.temporary = <<k>>
  /\ Stands(types, origin, place) /\ Sent(origin, place) = origin[k] /\ IsPlace(origin[place[1]])
  /\ T = TypeOf(types, origin, place)
  /\ k \in Passing /\ Passing' = Passing /\ Staying' = Staying
  /\ \A x \in Elements(agenda) : x.at[1] # k
  /\ \A x \in Elements(Tail(agenda)) : x.do = "convert" => x.temporary[1] # k
  /\ names = Handed(reader, T, Append(item.chain, item.version))
  /\ names = Lasting(reader, T, sctx.version)
  /\ memory' = Converted(item)

(* What the conversion of a temporary moves, and where                     *)
LEMMA ConversionIs ==
  ASSUME ReaderHas, NEW types, NEW origin, NEW numbered, NEW opened, NEW letter, NEW c,
         NEW item, NEW rest,
         ReaderFinds(types, origin, numbered, opened, letter, c, item, rest), item.do = "convert",
         UNCHANGED <<pair, writerVars, dctx, objectsMap, tell, made>>, Continue(<<>>),
         dead' = dead \cup {item.temporary[1]}, memory' = Converted(item)
  PROVE  \E place, k, T, names : Moves(types, origin, item, place, k, T, names)
<1>1. PICK place, T, names :
        /\ place = item.at /\ T = item.type
        /\ names = Handed(reader, item.type, Append(item.chain, item.version))
  OBVIOUS
<1>2. /\ item = Head(agenda) /\ agenda # <<>> /\ IsSequence(agenda)
      /\ ReaderKnows(types, origin, numbered, opened) /\ ItemReads(types, origin, item)
  BY DEF ReaderFinds
<1>3. /\ Origins(origin) /\ InTheirTime
      /\ \A x \in Elements(agenda) : ItemReads(types, origin, x)
  BY <1>2 DEF ReaderKnows
<1>4. /\ made \in Nat /\ dead \subseteq 1..made
      /\ \A x \in Elements(agenda) : IsItem(reader, dctx, made, x) /\ x.at[1] \in 0..made
  BY DEF ReaderHas
<1>5. \A x \in Elements(agenda) : x.do = "convert" => \E l \in 1..made : x.temporary = <<l>>
  BY <1>4, ItemIsConvert
<1>6. item \in Elements(agenda)
  BY <1>2, TailElements
<1>7. PICK k \in 1..made : item.temporary = <<k>>
  BY <1>5, <1>6
<1>8. item.temporary[1] = k
  BY <1>7
<1>9. /\ Stands(types, origin, place) /\ TypeOf(types, origin, place) = T /\ k \notin dead
      /\ origin[k] = Sent(origin, place) /\ names = Lasting(reader, T, sctx.version)
  <2>1. Stands(types, origin, item.at) /\ ConvertReads(types, origin, item)
    BY <1>2 DEF ItemReads
  <2> QED  BY <1>1, <1>8, <2>1 DEF ConvertReads
<1>10. /\ IsPlace(place) /\ place[1] \in 0..made /\ IsPlace(origin[place[1]])
  BY <1>3, <1>9 DEF Stands, Origins
<1>11. PICK items : items = <<>>
  OBVIOUS
<1>12. Replaced(items) /\ Elements(items) = {} /\ UNCHANGED phase
  BY <1>2, <1>11, AgendaOfOne DEF Replaced, Continue
<1>13. agenda[1] = item /\ 1 \in 1..Len(agenda)
  BY <1>2, HeadIs, TailElements DEF IsSequence
<1>14. ASSUME NEW x \in Elements(agenda)
       PROVE  x.at[1] # k
  <2>1. PICK j \in 1..Len(agenda) : x = agenda[j]
    BY DEF Elements
  <2>2. 1 <= j
    OBVIOUS
  <2>3. agenda[j].at[1] # agenda[1].temporary[1]
    BY <1>3, <1>13, <2>2 DEF InTheirTime
  <2> QED  BY <1>8, <1>13, <2>1, <2>3
<1>15. ASSUME NEW x \in Elements(Tail(agenda)), x.do = "convert"
       PROVE  x.temporary[1] # k
  <2>1. /\ Elements(Tail(agenda)) \subseteq Elements(agenda) /\ IsSequence(Tail(agenda))
        /\ Len(Tail(agenda)) = Len(agenda) - 1 /\ Len(agenda) \in Nat
        /\ \A i \in 1..(Len(agenda) - 1) : Tail(agenda)[i] = agenda[i + 1]
    BY <1>12, ReplacedIs
  <2>2. PICK i \in 1..(Len(agenda) - 1) : x = Tail(agenda)[i]
    BY <2>1 DEF Elements
  <2>3. PICK j : j = i + 1
    OBVIOUS
  <2>4. j \in 1..Len(agenda) /\ x = agenda[j] /\ 1 <= j /\ 1 < j
    BY <2>1, <2>2, <2>3
  <2>5. x.temporary # item.temporary
    BY <1>2, <1>3, <1>13, <1>15, <2>4 DEF InTheirTime
  <2>6. PICK l \in 1..made : x.temporary = <<l>>
    BY <1>5, <1>15, <2>1
  <2> QED  BY <1>7, <2>5, <2>6
<1>16. Temporaries = Temporaries' \cup {k} /\ k \notin Temporaries'
  <2>1. Temporaries = TemporariesOf(agenda) /\ Temporaries' = TemporariesOf(agenda')
    BY <1>12, TemporariesChange
  <2>2. /\ Elements(agenda') = Elements(items) \cup Elements(Tail(agenda))
        /\ Elements(agenda) = {Head(agenda)} \cup Elements(Tail(agenda))
    BY <1>12, ReplacedIs
  <2>3. Elements(agenda') = Elements(Tail(agenda))
    BY <1>12, <2>2
  <2>4. {y \in Elements(agenda) : y.do = "convert"}
          = {item} \cup {y \in Elements(agenda') : y.do = "convert"}
    BY <1>2, <2>2, <2>3
  <2>5. TemporariesOf(agenda) = TemporariesOf(agenda') \cup {k}
    BY <1>8, <2>4 DEF TemporariesOf
  <2>6. k \notin TemporariesOf(agenda')
    BY <1>15, <2>3 DEF TemporariesOf
  <2> QED  BY <2>1, <2>5, <2>6
<1>17. k \in Passing /\ Passing' = Passing /\ Staying' = Staying
  <2>1. Passing' = Passing /\ k \in Passing
    BY <1>8, <1>16 DEF Passing
  <2> QED  BY <2>1 DEF Staying
<1>18. dead' = dead \cup {k}
  BY <1>8
<1> QED  BY <1>1, <1>2, <1>4, <1>7, <1>9, <1>10, <1>11, <1>12, <1>14, <1>15, <1>17, <1>18
            DEF Moves

(* A struct in the temporary is one in its place.                          *)
LEMMA MovedStands ==
  ASSUME NEW types, NEW origin, NEW item, NEW place, NEW k, NEW T, NEW names,
         Moves(types, origin, item, place, k, T, names), NEW p, Stands(types, origin, p), p[1] = k,
         NEW q, q = Moved(p, place)
  PROVE  /\ Stands(types, origin, q)' /\ Sent(origin, q) = Sent(origin, p)
         /\ TypeOf(types, origin, q) = TypeOf(types, origin, p) /\ q[1] # k
<1>1. /\ UNCHANGED <<pair, writerVars, made>> /\ dead' = dead \cup {k}
      /\ IsPlace(place) /\ Stands(types, origin, place) /\ Sent(origin, place) = origin[k]
      /\ IsPlace(origin[place[1]]) /\ item.at = place /\ \A x \in Elements(agenda) : x.at[1] # k
      /\ item = Head(agenda) /\ IsSequence(agenda) /\ agenda # <<>>
  BY DEF Moves, Replaced
<1>2. place[1] # k
  BY <1>1, TailElements
<1>3. IsPlace(p) /\ Sent(origin, p) \in DOMAIN types /\ CanHold(reader, TypeOf(types, origin, p))
  BY DEF Stands
<1>4. IsPlace(q) /\ q[1] = place[1]
  BY <1>1, <1>3, MovedIs
<1>5. Sent(origin, q) = Sent(origin, p)
  BY <1>1, <1>3, SentMoved
<1>6. TypeOf(types, origin, q) = TypeOf(types, origin, p)
  BY <1>5 DEF TypeOf
<1>7. place[1] \in (0..made) \ dead
  BY <1>1 DEF Stands
<1>8. reader' = reader /\ sctx' = sctx /\ made' = made
  BY <1>1 DEF reader, writerVars
<1>9. (CanHold(reader, TypeOf(types, origin, q)))'
  BY <1>3, <1>6, <1>8 DEF CanHold
<1>10. Stands(types, origin, q)'
  BY <1>1, <1>2, <1>3, <1>4, <1>5, <1>7, <1>8, <1>9 DEF Stands
<1> QED  BY <1>2, <1>4, <1>5, <1>6, <1>10

(* A conversion lets all be that is known of the other places.             *)
LEMMA MovesOn ==
  ASSUME NEW types, NEW origin, NEW item, NEW place, NEW k, NEW T, NEW names,
         Moves(types, origin, item, place, k, T, names)
  PROVE  Onward(origin, origin)
<1>1. /\ UNCHANGED <<pair, writerVars, made>> /\ made \in Nat
      /\ Passing' = Passing /\ Staying' = Staying
  BY DEF Moves
<1>2. UNCHANGED <<pair, graph, sctx, out, pointersMap>> /\ made' = made
  BY <1>1 DEF writerVars
<1> QED  BY <1>1, <1>2 DEF Onward

(* What a slot is of                                                       *)
LEMMA SlotIsOf ==
  ASSUME NEW types, NEW origin, NEW slot, NEW q, NEW m, NEW value,
         SlotIs(types, origin, slot, q, m, value)
  PROVE  IsPlace(slot) /\ Len(slot) > 1 /\ slot[1] = q[1] /\ slot[Len(q) + 1] = m.name
         /\ IsPlace(q) /\ (Len(q) > 1 => slot[2] = q[2]) /\ (Len(q) > 1 \/ Len(q) = 1)
<1>1. slot = Part(q, m.name, 1) /\ IsPlace(q)
  BY DEF SlotIs, Stands
<1>2. /\ Len(slot) = Len(q) + 2 /\ Len(q) \in Nat /\ Len(q) >= 1
      /\ \A i \in 1..Len(q) : slot[i] = q[i]
      /\ slot[Len(q) + 1] = m.name
  BY <1>1, PartIs
<1>3. IsPlace(slot)
  BY <1>1, PartIsPlace
<1>4. 1 \in 1..Len(q) /\ (Len(q) > 1 => 2 \in 1..Len(q)) /\ (Len(q) > 1 \/ Len(q) = 1) /\ Len(slot) > 1
  <2>1. PICK n, l : n = Len(q) /\ l = Len(slot)
    OBVIOUS
  <2>2. n \in Nat /\ n >= 1 /\ l = n + 2
    BY <1>2, <2>1
  <2>3. 1 \in 1..n /\ (n > 1 => 2 \in 1..n) /\ (n > 1 \/ n = 1) /\ l > 1
    BY <2>2
  <2> QED  BY <2>1, <2>3
<1>5. slot[1] = q[1] /\ (Len(q) > 1 => slot[2] = q[2])
  BY <1>2, <1>4
<1> QED  BY <1>1, <1>2, <1>3, <1>4, <1>5

(* What a conversion carries                                               *)
LEMMA CarriedSlot ==
  ASSUME NEW types, NEW origin, NEW item, NEW place, NEW k, NEW T, NEW names,
         Moves(types, origin, item, place, k, T, names),
         NEW s, NEW q, NEW m, NEW value, SlotIs(types, origin, s, q, m, value),
         s[1] = k, s[2] \in names, NEW slot, slot = Moved(s, place)
  PROVE  \E r : SlotIs(types, origin, slot, r, m, value)'
<1>1. /\ s = Part(q, m.name, 1) /\ Stands(types, origin, q)
      /\ m \in ToSet(MessageMembers(reader, TypeOf(types, origin, q), sctx.version))
      /\ m.kind \in {"number", "pointer"}
      /\ m.name \in Lasting(reader, TypeOf(types, origin, q), sctx.version) \/ IsTemporary(q)
      /\ HoldsAsTold(types, origin, q, m, value)
  BY DEF SlotIs
<1>2. q[1] = k /\ IsPlace(q) /\ s[Len(q) + 1] = m.name /\ (Len(q) > 1 \/ Len(q) = 1)
  BY SlotIsOf
<1>3. /\ UNCHANGED <<pair, writerVars>> /\ Sent(origin, place) = origin[k] /\ T = TypeOf(types, origin, place)
      /\ names = Lasting(reader, T, sctx.version) /\ IsPlace(place)
  BY DEF Moves
<1>4. PICK r : r = Moved(q, place)
  OBVIOUS
<1>5. /\ Stands(types, origin, r)' /\ Sent(origin, r) = Sent(origin, q)
      /\ TypeOf(types, origin, r) = TypeOf(types, origin, q)
  BY <1>1, <1>2, <1>4, MovedStands
<1>6. slot = Part(r, m.name, 1)
  BY <1>1, <1>2, <1>3, <1>4, MovedIs
<1>7. HoldsAsTold(types, origin, r, m, value)'
  <2>1. Onward(origin, origin)
    BY MovesOn
  <2>2. HoldsAsTold(types, origin, r, m, value)
    BY <1>1, <1>5 DEF HoldsAsTold
  <2> QED  BY <2>1, <2>2, HoldsOn
<1>8. m.name \in Lasting(reader, TypeOf(types, origin, q), sctx.version)
  <2>1. CASE IsTemporary(q)
    <3>1. Len(q) = 1
      BY <2>1 DEF IsTemporary
    <3>2. m.name \in names
      BY <1>2, <3>1
    <3>3. TypeOf(types, origin, q) = T
      <4>1. q = <<k>>
        <5>1. PICK w : w = <<k>>
          OBVIOUS
        <5>2. IsSequence(w) /\ Len(w) = 1 /\ w[1] = k
          BY <5>1 DEF IsSequence
        <5>3. IsSequence(q)
          BY <1>2 DEF IsPlace
        <5>4. q = w
          BY <1>2, <3>1, <5>2, <5>3 DEF IsSequence
        <5> QED  BY <5>1, <5>4
      <4>2. IsPlace(origin[k])
        <5>1. IsPlace(place) /\ IsPlace(origin[place[1]])
          BY DEF Moves
        <5>2. IsPlace(Sent(origin, place))
          BY <5>1, SentPart
        <5> QED  BY <1>3, <5>2
      <4>3. Sent(origin, q) = Sent(origin, place)
        BY <1>3, <4>1, <4>2, SentObject
      <4> QED  BY <1>3, <4>3 DEF TypeOf
    <3> QED  BY <1>3, <3>2, <3>3
  <2> QED  BY <1>1, <2>1
<1>9. reader' = reader /\ sctx' = sctx
  BY <1>3 DEF reader, writerVars
<1>10. SlotIs(types, origin, slot, r, m, value)'
  BY <1>1, <1>5, <1>6, <1>7, <1>8, <1>9 DEF SlotIs
<1> QED  BY <1>10

(* What a conversion leaves in memory is as it was told.                   *)
LEMMA ConvertedTells ==
  ASSUME NEW types, NEW origin, NEW item, NEW place, NEW k, NEW T, NEW names,
         Moves(types, origin, item, place, k, T, names), MemoryAsTold(types, origin)
  PROVE  MemoryAsTold(types, origin)'
<1>1. /\ item.at = place /\ IsPlace(place) /\ item.temporary = <<k>> /\ item.type = T
      /\ names = Handed(reader, T, Append(item.chain, item.version))
      /\ memory' = Converted(item) /\ dead' = dead \cup {k}
  BY DEF Moves
<1>2. \A slot \in DOMAIN memory : \E q, m : SlotIs(types, origin, slot, q, m, memory[slot])
  BY DEF MemoryAsTold
<1>3. \A slot \in DOMAIN memory : IsPlace(slot) /\ Len(slot) > 1
  BY <1>2, SlotIsOf
<1>4. \A slot \in DOMAIN memory' :
        \/ slot \in DOMAIN memory /\ slot[1] # k /\ memory'[slot] = memory[slot]
        \/ \E s \in DOMAIN memory :
             /\ s[1] = k /\ s[2] \in names /\ slot = Moved(s, place) /\ memory'[slot] = memory[s]
  <2>1. names = Handed(reader, item.type, Append(item.chain, item.version)) /\ place = item.at
    BY <1>1
  <2> QED  BY <1>1, <1>3, <2>1, ConvertedHas
<1>5. ASSUME NEW slot \in DOMAIN memory'
      PROVE  \E q, m : SlotIs(types, origin, slot, q, m, memory[slot])'
  <2>1. CASE slot \in DOMAIN memory /\ slot[1] # k /\ memory'[slot] = memory[slot]
    <3>1. PICK q, m : SlotIs(types, origin, slot, q, m, memory[slot])
      BY <1>2, <2>1
    <3>2. PICK value : value = memory[slot]
      OBVIOUS
    <3>3. SlotIs(types, origin, slot, q, m, value)
      BY <3>1, <3>2
    <3>4. q[1] \notin dead'
      <4>1. q[1] = slot[1]
        BY <3>3, SlotIsOf
      <4>2. q[1] \notin dead
        BY <3>3 DEF SlotIs, Stands
      <4> QED  BY <1>1, <2>1, <4>1, <4>2
    <3>5. Onward(origin, origin)
      BY MovesOn
    <3>6. SlotIs(types, origin, slot, q, m, value)'
      BY <3>3, <3>4, <3>5, SlotOn
    <3>7. memory'[slot] = value
      BY <2>1, <3>2
    <3> QED  BY <3>6, <3>7
  <2>2. CASE \E s \in DOMAIN memory :
               /\ s[1] = k /\ s[2] \in names /\ slot = Moved(s, place) /\ memory'[slot] = memory[s]
    <3>1. PICK s \in DOMAIN memory :
            /\ s[1] = k /\ s[2] \in names /\ slot = Moved(s, place) /\ memory'[slot] = memory[s]
      BY <2>2
    <3>2. PICK q, m : SlotIs(types, origin, s, q, m, memory[s])
      BY <1>2
    <3>3. PICK value : value = memory[s]
      OBVIOUS
    <3>4. SlotIs(types, origin, s, q, m, value)
      BY <3>2, <3>3
    <3>5. \E r : SlotIs(types, origin, slot, r, m, value)'
      BY <3>1, <3>4, CarriedSlot
    <3>6. memory'[slot] = value
      BY <3>1, <3>3
    <3> QED  BY <3>5, <3>6
  <2> QED  BY <1>4, <2>1, <2>2
<1> QED  BY <1>5 DEF MemoryAsTold

(* What of the temporary is carried to its struct                          *)
Carries(p, k, names) == p[1] = k /\ (Len(p) = 1 \/ p[2] \in names)

(* What was opened, once the temporary is converted                        *)
OpenedThen(opened, place, k, names) ==
  {p \in opened : p[1] # k} \cup {Moved(p, place) : p \in {q \in opened : Carries(q, k, names)}}

(* The temporary was read, and its struct is.                              *)
LEMMA TemporaryIsThere ==
  ASSUME NEW types, NEW origin, NEW item, NEW place, NEW k, NEW T, NEW names,
         Moves(types, origin, item, place, k, T, names), NEW opened, AllIsThere(types, origin, opened),
         NEW there, there = OpenedThen(opened, place, k, names)
  PROVE  /\ \A p : IsThere(opened, p) /\ p[1] = k => p \in opened
         /\ place \in there
<1>1. /\ \A x \in Elements(agenda) : x.at[1] # k
      /\ item = Head(agenda) /\ item.do = "convert" /\ item.temporary = <<k>> /\ IsPlace(place)
      /\ IsSequence(agenda) /\ agenda # <<>>
  BY DEF Moves, Replaced
<1>2. \A p : IsThere(opened, p) /\ p[1] = k => p \in opened
  BY <1>1 DEF IsThere, StructComes
<1>3. item \in Elements(agenda)
  BY <1>1, TailElements
<1>4. IsThere(opened, <<k>>)
  BY <1>1, <1>3 DEF AllIsThere
<1>5. PICK p : p = <<k>>
  OBVIOUS
<1>6. p[1] = k /\ Len(p) = 1 /\ Tail(p) = <<>>
  BY <1>5
<1>7. p \in opened
  BY <1>2, <1>4, <1>5, <1>6
<1>8. Moved(p, place) = place
  BY <1>1, <1>6, NothingAdded DEF Moved, IsPlace
<1>9. Carries(p, k, names)
  BY <1>6 DEF Carries
<1> QED  BY <1>2, <1>7, <1>8, <1>9 DEF OpenedThen

(* What is there, or comes, and is not of the temporary, still is or does. *)
LEMMA ThereStill ==
  ASSUME NEW types, NEW origin, NEW item, NEW place, NEW k, NEW T, NEW names,
         Moves(types, origin, item, place, k, T, names), NEW opened, AllIsThere(types, origin, opened),
         NEW there, there = OpenedThen(opened, place, k, names),
         NEW p, IsThere(opened, p), p[1] # k
  PROVE  IsThere(there, p)'
<1>1. item = Head(agenda) /\ item.at = place /\ Replaced(<<>>)
  BY DEF Moves
<1>2. Elements(agenda') = Elements(Tail(agenda))
      /\ Elements(agenda) = {Head(agenda)} \cup Elements(Tail(agenda))
  <2>1. PICK items : items = <<>>
    OBVIOUS
  <2>2. Elements(items) = {} /\ Replaced(items)
    BY <1>1, <2>1, AgendaOfOne
  <2>3. Elements(agenda') = Elements(items) \cup Elements(Tail(agenda))
        /\ Elements(agenda) = {Head(agenda)} \cup Elements(Tail(agenda))
    BY <2>2, ReplacedIs
  <2> QED  BY <2>2, <2>3
<1>3. CASE p \in opened
  BY <1>3 DEF OpenedThen, IsThere
<1>4. CASE StructComes(p)
  <2>1. PICK x \in Elements(agenda) : x.do \in {"struct", "convert"} /\ x.at = p
    BY <1>4 DEF StructComes
  <2>2. CASE x = item
    <3>1. p = place
      BY <1>1, <2>1, <2>2
    <3>2. place \in there
      BY TemporaryIsThere
    <3> QED  BY <3>1, <3>2 DEF IsThere
  <2>3. CASE x \in Elements(Tail(agenda))
    BY <1>2, <2>1, <2>3 DEF IsThere, StructComes
  <2> QED  BY <1>1, <1>2, <2>2, <2>3
<1> QED  BY <1>3, <1>4 DEF IsThere

(* A struct that is not of the temporary                                   *)
LEMMA OpenedOn ==
  ASSUME NEW types, NEW origin, NEW item, NEW place, NEW k, NEW T, NEW names,
         Moves(types, origin, item, place, k, T, names), NEW opened, AllIsThere(types, origin, opened),
         \A s \in DOMAIN memory : s[1] # k => s \in DOMAIN memory',
         NEW there, there = OpenedThen(opened, place, k, names), NEW q \in opened, q[1] # k
  PROVE  IsOpened(types, origin, there, q)'
<1>1. /\ UNCHANGED <<pair, writerVars>> /\ dead' = dead \cup {k} /\ item = Head(agenda)
      /\ item.do = "convert" /\ Replaced(<<>>)
  BY DEF Moves
<1>2. PICK Q, c : Q = TypeOf(types, origin, q) /\ c = sctx.version
  OBVIOUS
<1>3. /\ Stands(types, origin, q)
      /\ \A m \in ToSet(MessageMembers(reader, Q, c)) :
            m.name \in Lasting(reader, Q, c) => MemberIsThere(opened, q, m)
  BY <1>2 DEF AllIsThere, IsOpened
<1>4. Stands(types, origin, q)' /\ IsPlace(q)
  <2>1. Onward(origin, origin)
    BY MovesOn
  <2>2. q[1] \notin dead' /\ IsPlace(q)
    BY <1>1, <1>3 DEF Stands
  <2> QED  BY <1>3, <2>1, <2>2, StandsOn
<1>5. ASSUME NEW m, MemberIsThere(opened, q, m)
      PROVE  MemberIsThere(there, q, m)'
  <2>1. \A name, j : Part(q, name, j)[1] # k
    BY <1>4, PartIsPlace
  <2>2. CASE MemberComes(q, m)
    <3>1. PICK x \in Elements(agenda) : x.do \in MemberKinds /\ x.at = q /\ x.member = m
      BY <2>2 DEF MemberComes
    <3>2. x # item
      BY <1>1, <3>1 DEF MemberKinds
    <3>3. x \in Elements(agenda')
      <4>1. PICK items : items = <<>>
        OBVIOUS
      <4>2. Replaced(items)
        BY <1>1, <4>1
      <4>3. Elements(agenda') = Elements(items) \cup Elements(Tail(agenda))
            /\ Elements(agenda) = {Head(agenda)} \cup Elements(Tail(agenda))
        BY <4>2, ReplacedIs
      <4> QED  BY <1>1, <3>2, <4>3
    <3> QED  BY <3>1, <3>3 DEF MemberIsThere, MemberComes
  <2>3. CASE m.kind \in {"number", "pointer"} /\ Part(q, m.name, 1) \in DOMAIN memory
    BY <2>1, <2>3 DEF MemberIsThere
  <2>4. CASE m.kind \in {"member", "array"} /\ \A j \in 1..m.n : IsThere(opened, Part(q, m.name, j))
    <3>1. ASSUME NEW j \in 1..m.n
          PROVE  IsThere(there, Part(q, m.name, j))'
      <4>1. PICK p : p = Part(q, m.name, j)
        OBVIOUS
      <4>2. IsThere(opened, p) /\ p[1] # k
        BY <2>1, <2>4, <4>1
      <4>3. IsThere(there, p)'
        BY <4>2, ThereStill
      <4> QED  BY <4>1, <4>3
    <3> QED  BY <2>4, <3>1 DEF MemberIsThere
  <2> QED  BY <1>5, <2>2, <2>3, <2>4 DEF MemberIsThere
<1>6. reader' = reader /\ sctx' = sctx
  BY <1>1 DEF reader, writerVars
<1> QED  BY <1>2, <1>3, <1>4, <1>5, <1>6 DEF IsOpened

(* A struct that was, and is carried                                       *)
LEMMA OpenedThere ==
  ASSUME NEW types, NEW origin, NEW item, NEW place, NEW k, NEW T, NEW names,
         Moves(types, origin, item, place, k, T, names), NEW opened, AllIsThere(types, origin, opened),
         \A s \in DOMAIN memory : s[1] = k /\ s[2] \in names => Moved(s, place) \in DOMAIN memory',
         NEW there, there = OpenedThen(opened, place, k, names), IsPlace(origin[k]),
         NEW r \in opened, Carries(r, k, names), NEW q, q = Moved(r, place)
  PROVE  IsOpened(types, origin, there, q)'
<1>1. /\ UNCHANGED <<pair, writerVars>> /\ \A x \in Elements(agenda) : x.at[1] # k
      /\ IsPlace(place) /\ T = TypeOf(types, origin, place) /\ Sent(origin, place) = origin[k]
      /\ names = Lasting(reader, T, sctx.version)
  BY DEF Moves
<1>2. PICK R, c : R = TypeOf(types, origin, r) /\ c = sctx.version
  OBVIOUS
<1>3. /\ Stands(types, origin, r) /\ IsPlace(r) /\ r[1] = k
      /\ \A m \in ToSet(MessageMembers(reader, R, c)) :
            m.name \in Lasting(reader, R, c) => MemberIsThere(opened, r, m)
  BY <1>2 DEF AllIsThere, IsOpened, Carries, Stands
<1>4. Stands(types, origin, q)' /\ TypeOf(types, origin, q) = R
  BY <1>2, <1>3, MovedStands
<1>5. Len(r) = 1 => R = T
  <2>1. SUFFICES ASSUME Len(r) = 1 PROVE R = T
    OBVIOUS
  <2>2. r = <<k>>
    <3>1. PICK w : w = <<k>>
      OBVIOUS
    <3>2. IsSequence(w) /\ Len(w) = 1 /\ w[1] = k
      BY <3>1 DEF IsSequence
    <3>3. IsSequence(r)
      BY <1>3 DEF IsPlace
    <3>4. r = w
      BY <1>3, <2>1, <3>2, <3>3 DEF IsSequence
    <3> QED  BY <3>1, <3>4
  <2>3. Sent(origin, r) = origin[k]
    BY <2>2, SentObject
  <2> QED  BY <1>1, <1>2, <2>3 DEF TypeOf
<1>6. ASSUME NEW name, NEW j, name \in Lasting(reader, R, c)
      PROVE  /\ Carries(Part(r, name, j), k, names) /\ Part(r, name, j)[2] \in names
             /\ Part(r, name, j)[1] = k
             /\ Moved(Part(r, name, j), place) = Part(q, name, j)
  <2>1. PICK p, l, n : p = Part(r, name, j) /\ l = Len(p) /\ n = Len(r)
    OBVIOUS
  <2>2. /\ l = n + 2 /\ n \in Nat /\ n >= 1
        /\ \A i \in 1..n : p[i] = r[i]
        /\ p[n + 1] = name
    <3>1. /\ Len(p) = Len(r) + 2 /\ Len(r) \in Nat /\ Len(r) >= 1
          /\ \A i \in 1..Len(r) : p[i] = r[i]
          /\ p[Len(r) + 1] = name
      <4>1. IsPlace(r) /\ p = Part(r, name, j)
        BY <1>3, <2>1
      <4> QED  BY <4>1, PartIs
    <3> QED  BY <2>1, <3>1
  <2>3. p[1] = k
    BY <1>3, <2>1, PartIsPlace
  <2>4. p[2] \in names
    <3>1. CASE n = 1
      <4>1. p[2] = name
        BY <2>2, <3>1
      <4> QED  BY <1>1, <1>2, <1>5, <1>6, <2>1, <3>1, <4>1
    <3>2. CASE n # 1
      <4>1. 2 \in 1..n
        BY <2>2, <3>2
      <4>2. r[2] \in names
        BY <2>1, <3>2 DEF Carries
      <4> QED  BY <2>2, <4>1, <4>2
    <3> QED  BY <3>1, <3>2
  <2>5. Moved(p, place) = Part(q, name, j)
    BY <1>1, <1>3, <2>1, MovedIs
  <2> QED  BY <2>1, <2>3, <2>4, <2>5 DEF Carries
<1>7. ASSUME NEW m, m.name \in Lasting(reader, R, c), MemberIsThere(opened, r, m)
      PROVE  MemberIsThere(there, q, m)'
  <2>1. ~MemberComes(r, m)
    BY <1>1, <1>3 DEF MemberComes
  <2>2. CASE m.kind \in {"number", "pointer"} /\ Part(r, m.name, 1) \in DOMAIN memory
    <3>1. PICK s : s = Part(r, m.name, 1)
      OBVIOUS
    <3>2. s \in DOMAIN memory /\ s[1] = k /\ s[2] \in names /\ Moved(s, place) = Part(q, m.name, 1)
      BY <1>6, <1>7, <2>2, <3>1
    <3>3. Part(q, m.name, 1) \in DOMAIN memory'
      BY <3>2
    <3> QED  BY <2>2, <3>3 DEF MemberIsThere
  <2>3. CASE m.kind \in {"member", "array"} /\ \A j \in 1..m.n : IsThere(opened, Part(r, m.name, j))
    <3>1. ASSUME NEW j \in 1..m.n
          PROVE  Part(q, m.name, j) \in there
      <4>1. PICK p : p = Part(r, m.name, j)
        OBVIOUS
      <4>2. IsThere(opened, p) /\ p[1] = k /\ Carries(p, k, names) /\ Moved(p, place) = Part(q, m.name, j)
        BY <1>6, <1>7, <2>3, <4>1
      <4>3. p \in opened
        BY <4>2, TemporaryIsThere
      <4> QED  BY <4>2, <4>3 DEF OpenedThen
    <3>2. \A j \in 1..m.n : IsThere(there, Part(q, m.name, j))'
      BY <3>1 DEF IsThere
    <3> QED  BY <2>3, <3>2 DEF MemberIsThere
  <2> QED  BY <1>7, <2>1, <2>2, <2>3 DEF MemberIsThere
<1>8. reader' = reader /\ sctx' = sctx
  BY <1>1 DEF reader, writerVars
<1> QED  BY <1>2, <1>3, <1>4, <1>7, <1>8 DEF IsOpened

(* All that was there is there after a conversion.                         *)
LEMMA ConvertedThere ==
  ASSUME NEW types, NEW origin, NEW item, NEW place, NEW k, NEW T, NEW names,
         Moves(types, origin, item, place, k, T, names), NEW opened, AllIsThere(types, origin, opened),
         Origins(origin), MemoryAsTold(types, origin),
         NEW there, there = OpenedThen(opened, place, k, names)
  PROVE  AllIsThere(types, origin, there)'
<1>1. /\ item.at = place /\ IsPlace(place) /\ item.temporary = <<k>> /\ item.type = T
      /\ names = Handed(reader, T, Append(item.chain, item.version))
      /\ memory' = Converted(item) /\ k \in Passing /\ Staying' = Staying /\ Replaced(<<>>)
      /\ \A x \in Elements(Tail(agenda)) : x.do = "convert" => x.temporary[1] # k
      /\ made \in Nat /\ k \in (1..made) \ dead
  BY DEF Moves
<1>2. \A slot \in DOMAIN memory : IsPlace(slot) /\ Len(slot) > 1
  BY SlotIsOf DEF MemoryAsTold
<1>3. /\ \A s \in DOMAIN memory : s[1] # k => s \in DOMAIN memory'
      /\ \A s \in DOMAIN memory : s[1] = k /\ s[2] \in names => Moved(s, place) \in DOMAIN memory'
  <2>1. names = Handed(reader, item.type, Append(item.chain, item.version)) /\ place = item.at
    BY <1>1
  <2>2. PICK converted : converted = Converted(item)
    OBVIOUS
  <2>3. /\ \A s \in DOMAIN memory : s[1] # k => s \in DOMAIN converted
        /\ \A s \in DOMAIN memory : s[1] = k /\ s[2] \in names => Moved(s, place) \in DOMAIN converted
    BY <1>1, <1>2, <2>1, <2>2, ConvertedHas
  <2> QED  BY <1>1, <2>2, <2>3
<1>4. IsPlace(origin[k])
  BY <1>1 DEF Origins
<1>5. ASSUME NEW q \in there
      PROVE  IsOpened(types, origin, there, q)'
  <2>1. CASE q \in opened /\ q[1] # k
    BY <1>3, <2>1, OpenedOn
  <2>2. CASE \E r \in opened : Carries(r, k, names) /\ q = Moved(r, place)
    BY <1>3, <1>4, <2>2, OpenedThere
  <2> QED  BY <1>5, <2>1, <2>2 DEF OpenedThen
<1>6. ASSUME NEW l \in Staying
      PROVE  IsThere(there, <<l>>)'
  <2>1. PICK p : p = <<l>>
    OBVIOUS
  <2>2. IsThere(opened, p) /\ p[1] # k
    BY <1>1, <2>1 DEF AllIsThere, Staying
  <2>3. IsThere(there, p)'
    BY <2>2, ThereStill
  <2> QED  BY <2>1, <2>3
<1>7. Elements(agenda') = Elements(Tail(agenda)) /\ Elements(Tail(agenda)) \subseteq Elements(agenda)
  <2>1. PICK items : items = <<>>
    OBVIOUS
  <2>2. Replaced(items) /\ Elements(items) = {}
    BY <1>1, <2>1, AgendaOfOne
  <2>3. Elements(agenda') = Elements(items) \cup Elements(Tail(agenda))
        /\ Elements(agenda) = {Head(agenda)} \cup Elements(Tail(agenda))
    BY <2>2, ReplacedIs
  <2> QED  BY <2>2, <2>3
<1>8. ASSUME NEW x \in Elements(agenda'), x.do = "convert"
      PROVE  IsThere(there, x.temporary)'
  <2>1. PICK p : p = x.temporary
    OBVIOUS
  <2>2. IsThere(opened, p) /\ p[1] # k
    BY <1>1, <1>7, <1>8, <2>1 DEF AllIsThere
  <2>3. IsThere(there, p)'
    BY <2>2, ThereStill
  <2> QED  BY <2>1, <2>3
<1> QED  BY <1>1, <1>5, <1>6, <1>8 DEF AllIsThere

(* convertToUpperVersion carries the members that last into the object.    *)
LEMMA ConvertToUpperVersionTells ==
  ASSUME PlainStructs, OneHistory, ReadingInv, NEW types, TypedBy(writer, graph, types),
         ReadAsTold(types), ConvertToUpperVersion
  PROVE  ReadAsTold(types)'
<1>1. PICK item : item = Head(agenda)
  OBVIOUS
<1>2. /\ phase = "read" /\ agenda # <<>> /\ item.do = "convert"
      /\ UNCHANGED <<pair, writerVars, dctx, objectsMap, tell, made>>
      /\ \/ /\ memory' = Converted(item) /\ dead' = dead \cup {item.temporary[1]}
            /\ Continue(<<>>)
         \/ Abandon("no such handler") \/ Abandon("no memory")
  BY <1>1 DEF ConvertToUpperVersion, Doing
<1>3. CASE Abandon("no such handler") \/ Abandon("no memory")
  <2>1. phase' = "idle"
    BY <1>3 DEF Abandon, Stop
  <2> QED  BY <2>1, StopTells
<1>4. CASE /\ memory' = Converted(item) /\ dead' = dead \cup {item.temporary[1]} /\ Continue(<<>>)
  <2>1. PICK origin, numbered, opened, letter, c, rest :
          ReaderHas /\ ReaderFinds(types, origin, numbered, opened, letter, c, item, rest)
    BY <1>1, <1>2, ReaderFindsIt
  <2>2. PICK place, k, T, names : Moves(types, origin, item, place, k, T, names)
    BY <1>2, <1>4, <2>1, ConversionIs
  <2>3. /\ rest = Places(origin, Tail(agenda)) /\ IsSequence(rest) /\ letter = Letter(types)
        /\ ReaderKnows(types, origin, numbered, opened)
        /\ Traces(letter, out, Tracing(Then(ItemPlaces(origin, item), rest), tell, numbered),
                  Tracing(<<>>, Len(out), Seen))
    BY <2>1 DEF ReaderFinds
  <2>4. /\ Origins(origin) /\ InTheirTime /\ MemoryAsTold(types, origin)
        /\ AllIsThere(types, origin, opened) /\ NumberedAsTold(origin, numbered)
        /\ \A x \in Elements(agenda) : ItemReads(types, origin, x)
    BY <2>3 DEF ReaderKnows
  <2>5. /\ UNCHANGED <<pair, writerVars, objectsMap, tell, made>> /\ dead' = dead \cup {k}
        /\ Staying' = Staying /\ Replaced(<<>>)
        /\ \A x \in Elements(agenda) : x.at[1] # k
        /\ \A x \in Elements(Tail(agenda)) : x.do = "convert" => x.temporary[1] # k
    BY <2>2 DEF Moves
  <2>6. Onward(origin, origin)
    BY <2>2, MovesOn
  <2>7. PICK items : items = <<>>
    OBVIOUS
  <2>8. /\ Replaced(items) /\ Elements(items) = {} /\ agenda' = Tail(agenda) /\ IsSequence(agenda')
        /\ Elements(agenda') \subseteq Elements(agenda) /\ Elements(agenda') = Elements(Tail(agenda))
    <3>1. Replaced(items) /\ Elements(items) = {}
      BY <2>5, <2>7, AgendaOfOne
    <3>2. /\ IsSequence(agenda') /\ IsSequence(Tail(agenda))
          /\ Elements(agenda') = Elements(items) \cup Elements(Tail(agenda))
          /\ Elements(agenda) = {Head(agenda)} \cup Elements(Tail(agenda))
      BY <3>1, ReplacedIs
    <3>3. agenda' = Tail(agenda)
      BY <2>5, <3>2, NothingAdded DEF Replaced
    <3> QED  BY <3>1, <3>2, <3>3
  <2>9. Origins(origin)'
    BY <2>4, <2>5 DEF Origins
  <2>10. InTheirTime'
    BY <2>4, <2>8, TimeGoesOn
  <2>11. (Traces(Letter(types), out, Tracing(Places(origin, agenda), tell, numbered),
                 Tracing(<<>>, Len(out), Seen)))'
    <3>1. ItemPlaces(origin, item) = <<>>
      BY <1>2 DEF ItemPlaces, MemberKinds
    <3>2. Then(ItemPlaces(origin, item), rest) = rest
      BY <2>3, <3>1, ThenIs
    <3>3. Places(origin, agenda') = rest
      BY <2>3, <2>8
    <3>4. Letter(types)' = letter /\ out' = out /\ Seen' = Seen /\ tell' = tell
      <4>1. UNCHANGED <<graph, sctx, out, pointersMap>> /\ writer' = writer
        BY <2>5 DEF writerVars, writer
      <4> QED  BY <2>3, <2>5, <4>1 DEF Letter, Seen
    <3> QED  BY <2>3, <3>2, <3>3, <3>4
  <2>12. ASSUME NEW x \in Elements(agenda')
         PROVE  ItemReads(types, origin, x)'
    <3>1. x \in Elements(agenda) /\ x \in Elements(Tail(agenda))
      BY <2>8
    <3>2. ItemReads(types, origin, x) /\ x.at[1] # k /\ (x.do = "convert" => x.temporary[1] # k)
      BY <2>4, <2>5, <3>1
    <3>3. CASE x.do \in MemberKinds \cup {"struct", "convert"}
      <4>1. x.at[1] \notin dead'
        BY <2>5, <3>2, <3>3 DEF ItemReads, Stands
      <4>2. x.do = "convert" => x.temporary[1] \notin dead'
        BY <2>5, <3>2 DEF ItemReads, ConvertReads
      <4> QED  BY <2>6, <3>2, <4>1, <4>2, ItemOn
    <3>4. CASE x.do \notin MemberKinds \cup {"struct", "convert"}
      BY <3>4 DEF ItemReads
    <3> QED  BY <3>3, <3>4
  <2>13. MemoryAsTold(types, origin)'
    BY <2>2, <2>4, ConvertedTells
  <2>14. PICK there : there = OpenedThen(opened, place, k, names)
    OBVIOUS
  <2>15. AllIsThere(types, origin, there)'
    BY <2>2, <2>4, <2>14, ConvertedThere
  <2>16. NumberedAsTold(origin, numbered)'
    <3>1. \A e \in numbered : e[1] # tell
      <4>1. item.do \in {"array", "element", "convert"}
        BY <1>2
      <4> QED  BY <1>1, <2>4, <4>1, NoneNumberedNow
    <3>2. \A e \in numbered : e[1] \in DOMAIN objectsMap' /\ objectsMap'[e[1]] = objectsMap[e[1]]
      BY <2>4, <2>5, NumbersKept
    <3>3. sctx' = sctx /\ tell \in Nat /\ tell' = tell
      BY <2>1, <2>5 DEF writerVars, ReaderHas
    <3>4. tell' \in Nat /\ tell <= tell'
      BY <3>3
    <3> QED  BY <2>4, <2>5, <3>1, <3>2, <3>3, <3>4, NumberedStill
  <2>17. ReaderKnows(types, origin, numbered, there)'
    BY <2>9, <2>10, <2>11, <2>12, <2>13, <2>15, <2>16 DEF ReaderKnows
  <2> QED  BY <2>17 DEF ReadAsTold
<1> QED  BY <1>2, <1>3, <1>4

(* deserialize begins with the struct that the writer began with.          *)
LEMMA DeserializeTells ==
  ASSUME PlainStructs, OneHistory, ReadingInv, NEW types, TypedBy(writer, graph, types),
         WrittenAsTold(types), NEW added \in BOOLEAN, Deserialize(added)
  PROVE  ReadAsTold(types)'
<1>1. PICK item, T : item = Latest(reader, T, TheCopy) /\ T = RootType
  OBVIOUS
<1>2. /\ phase = "written" /\ tell' = Len(Header)
      /\ UNCHANGED <<pair, writerVars, objectsMap, memory, made, dead>>
      /\ \/ agenda' = <<item>> /\ phase' = "read"
         \/ Stop("refused")
  BY <1>1 DEF Deserialize
<1>3. CASE Stop("refused")
  <2>1. phase' = "idle"
    BY <1>3 DEF Stop
  <2> QED  BY <2>1, StopTells
<1>4. CASE agenda' = <<item>> /\ phase' = "read"
  <2>1. ReadingInv'
    BY DeserializeKeepsReading
  <2>2. /\ agenda = <<>> /\ memory = <<>> /\ objectsMap = <<>> /\ made = 0 /\ dead = {}
    BY <1>2 DEF ReadingInv, BodyInv, Typed, TypeOK, InOrder, Unread
  <2>3. Elements(agenda') = {item} /\ IsSequence(agenda') /\ agenda' # <<>> /\ agenda'[1] = item
        /\ Len(agenda') = 1
    BY <1>4, AgendaOfOne
  <2>4. /\ item.do = "struct" /\ item.type = T /\ item.at = <<0>> /\ item.from = <<0>>
        /\ item.version = getLatestPrivateVersion(reader, T)
    BY <1>1, WholeIs DEF Latest, TheCopy
  <2>5. /\ UNCHANGED <<pair, graph, sctx, out, pointersMap>> /\ writer' = writer /\ reader' = reader
    BY <1>2 DEF writerVars, writer, reader
  <2>6. CanHold(reader, T)'
    <3>1. IsItem(reader', dctx', made', item)
      BY <1>4, <2>1, <2>3 DEF ReadingInv, BodyInv, Typed, IsAgenda, Worker, WorkerContext
    <3>2. StructInMessage(reader', dctx', T, item.version)
      BY <2>4, <3>1, ItemIsStruct
    <3>3. dctx'.version = sctx'.version
      BY <1>4, <2>1 DEF ReadingInv, ContextsAgree
    <3> QED  BY <3>2, <3>3 DEF StructInMessage, InMessage, CanHold
  <2>7. PICK origin, numbered, opened :
          origin = [k \in 0..0 |-> Root] /\ numbered = {} /\ opened = {}
    OBVIOUS
  <2>8. DOMAIN origin = 0..0 /\ origin[0] = Root /\ IsPlace(Root) /\ Len(Root) = 1
        /\ \A k \in 0..0 : k = 0
    BY <2>7, ObjectIsPlace DEF Root
  <2>9. Temporaries' = {}
    <3>1. ToSet(agenda') = {item}
      <4>1. ToSet(agenda') = Elements(agenda')
        BY <2>3, SequenceOfElements, SequenceIs
      <4> QED  BY <2>3, <4>1
    <3> QED  BY <2>4, <3>1 DEF Temporaries
  <2>10. made' = 0 /\ dead' = {} /\ Passing' = {} /\ Staying' = 0..0
    BY <1>2, <2>2, <2>9 DEF Passing, Staying
  <2>11. Origins(origin)'
    BY <2>8, <2>10 DEF Origins
  <2>12. InTheirTime'
    <3>1. \A i \in 1..Len(agenda') : agenda'[i].do # "convert"
      BY <2>3, <2>4
    <3> QED  BY <3>1 DEF InTheirTime
  <2>13. Sent(origin, <<0>>) = Root
    <3>1. IsPlace(origin[0])
      BY <2>8
    <3> QED  BY <2>8, <3>1, SentObject
  <2>14. Root \in DOMAIN types /\ types[Root] = T
    BY <1>1 DEF TypedBy
  <2>15. TypeOf(types, origin, <<0>>) = T
    BY <2>13, <2>14 DEF TypeOf
  <2>16. (Traces(Letter(types), out, Tracing(Places(origin, agenda), tell, numbered),
                 Tracing(<<>>, Len(out), Seen)))'
    <3>1. Traces(Letter(types), out, FromRoot, Tracing(Places(Itself, agenda), Len(out), Seen))
      BY <1>2 DEF WrittenAsTold
    <3>2. Places(Itself, agenda) = <<>>
      BY <2>2, PlacesOfNone
    <3>3. Places(origin, agenda') = <<StructAt(Root)>>
      BY <1>4, <2>4, <2>13, PlacesOfStruct
    <3>4. FromRoot = Tracing(Places(origin, agenda'), tell', numbered)
      BY <1>2, <2>7, <3>3 DEF FromRoot
    <3>5. Letter(types)' = Letter(types) /\ out' = out /\ Seen' = Seen
      BY <2>5 DEF Letter, Seen
    <3> QED  BY <3>1, <3>2, <3>4, <3>5
  <2>17. Stands(types, origin, <<0>>)'
    <3>1. PICK p : p = <<0>>
      OBVIOUS
    <3>2. IsPlace(p) /\ p[1] = 0
      BY <3>1, ObjectIsPlace
    <3>3. Sent(origin, p) = Root /\ TypeOf(types, origin, p) = T
      BY <2>13, <2>15, <3>1
    <3>4. 0 \in (0..made') \ dead'
      BY <2>10
    <3>5. Stands(types, origin, p)'
      BY <2>6, <2>14, <3>2, <3>3, <3>4 DEF Stands
    <3> QED  BY <3>1, <3>5
  <2>18. ItemReads(types, origin, item)'
    <3>1. StructReads(types, origin, item)'
      BY <2>4, <2>5, <2>15 DEF StructReads, VersionAt, Lasting
    <3> QED  BY <2>4, <2>17, <3>1 DEF ItemReads, MemberKinds
  <2>19. \A x \in Elements(agenda') : ItemReads(types, origin, x)'
    BY <2>3, <2>18
  <2>20. MemoryAsTold(types, origin)'
    <3>1. DOMAIN memory' = {}
      BY <1>2, <2>2
    <3> QED  BY <3>1 DEF MemoryAsTold
  <2>21. AllIsThere(types, origin, opened)'
    <3>1. \A k \in Staying' : IsThere(opened, <<k>>)'
      <4>1. item \in Elements(agenda')
        BY <2>3
      <4> QED  BY <2>4, <2>8, <2>10, <4>1 DEF IsThere, StructComes
    <3>2. \A x \in Elements(agenda') : x.do # "convert"
      BY <2>3, <2>4
    <3> QED  BY <2>7, <3>1, <3>2 DEF AllIsThere
  <2>22. NumberedAsTold(origin, numbered)'
    <3>1. Staying' \ {0} = {} /\ \A k, l \in Staying' : k = l
      BY <2>8, <2>10
    <3> QED  BY <2>7, <3>1 DEF NumberedAsTold
  <2>23. ReaderKnows(types, origin, numbered, opened)'
    BY <2>11, <2>12, <2>16, <2>19, <2>20, <2>21, <2>22 DEF ReaderKnows
  <2> QED  BY <2>23 DEF ReadAsTold
<1> QED  BY <1>2, <1>3, <1>4

-----------------------------------------------------------------------------
(* What has arrived.                                                       *)

(* A member is in every version that a build passes if it lasts in it.     *)
LEMMA PassedBy ==
  ASSUME NEW b, NEW c, c = sctx.version, Plain(b, c), NEW T, Fits(b, T, c), NEW name
  PROVE  (\A v \in VersionsPassed(b, T) : name \in Names(b, T, v)) <=> name \in Lasting(b, T, c)
<1>1. PICK V : V = VersionAt(b, T, c)
  OBVIOUS
<1>2. PICK L : L = getLatestPrivateVersion(b, T)
  OBVIOUS
<1>3. /\ V \in Nat /\ L \in ToSet(b.private[T]) /\ V \in ToSet(b.private[T])
      /\ \A p \in ToSet(b.private[T]) : p \in Nat /\ p <= L
  BY <1>1, <1>2, VersionAtIs
<1>4. VersionsPassed(b, T) = {v \in ToSet(b.private[T]) : v >= V}
  BY <1>1 DEF VersionsPassed, VersionAt
<1>5. /\ Lasting(b, T, c) \subseteq Names(b, T, L)
      /\ \A x \in Names(b, T, L) :
           x \in Lasting(b, T, c) <=> \A v \in ToSet(b.private[T]) : V <= v => x \in Names(b, T, v)
  BY <1>1, <1>2, HandedOnAt
<1>6. \A v \in ToSet(b.private[T]) : v >= V <=> V <= v
  BY <1>3
<1>7. L >= V
  BY <1>3
<1> QED  BY <1>3, <1>4, <1>5, <1>6, <1>7

(* A member arrives if it lasts in both builds.                            *)
LEMMA SurvivesIs ==
  ASSUME NEW c, c = sctx.version, Plain(writer, c), Plain(reader, c), NEW T,
         Fits(writer, T, c), Fits(reader, T, c), NEW name
  PROVE  Survives(T, name) <=> name \in Lasting(writer, T, c) /\ name \in Lasting(reader, T, c)
<1>1. (\A v \in VersionsPassed(writer, T) : name \in Names(writer, T, v)) <=> name \in Lasting(writer, T, c)
  BY PassedBy
<1>2. (\A v \in VersionsPassed(reader, T) : name \in Names(reader, T, v)) <=> name \in Lasting(reader, T, c)
  BY PassedBy
<1> QED  BY <1>1, <1>2 DEF Survives

(* What a member of the latest version is in the message, if it lasts      *)
LEMMA MemberOfMessage ==
  ASSUME NEW c, Plain(reader, c), NEW T, Fits(reader, T, c),
         NEW m \in MembersRead(T)
  PROVE  /\ \A k \in ToSet(MessageMembers(reader, T, c)) : k.name = m.name =>
              k.kind = m.kind /\ k.type = m.type /\ k.n = m.n
         /\ m.name \in Lasting(reader, T, c) =>
              \E k \in ToSet(MessageMembers(reader, T, c)) : k.name = m.name
         /\ m.kind # "array" => m.n = 1
<1>1. PICK V : V = VersionAt(reader, T, c)
  OBVIOUS
<1>2. PICK L : L = getLatestPrivateVersion(reader, T)
  OBVIOUS
<1>3. T \in DOMAIN reader.private /\ V \in ToSet(reader.private[T]) /\ L \in ToSet(reader.private[T])
  BY <1>1, <1>2, VersionAtIs DEF Fits
<1>4. m \in ToSet(reader.layout[T][L].members)
  BY <1>2 DEF MembersRead
<1>5. ToSet(MessageMembers(reader, T, c)) = ToSet(reader.layout[T][V].members)
  BY <1>1 DEF MessageMembers
<1>6. PlainLayout(reader.layout[T][L])
  BY <1>3 DEF Plain
<1>7. m.kind # "array" => m.n = 1
  BY <1>4, <1>6 DEF PlainLayout
<1>8. \A k \in ToSet(MessageMembers(reader, T, c)) : k.name = m.name =>
        k.kind = m.kind /\ k.type = m.type /\ k.n = m.n
  BY <1>3, <1>4, <1>5, OneName
<1>9. /\ Lasting(reader, T, c) \subseteq Names(reader, T, V)
      /\ Names(reader, T, V) = {k.name : k \in ToSet(MessageMembers(reader, T, c))}
  BY <1>1, HandedOnAt, MessageMembersAre
<1> QED  BY <1>7, <1>8, <1>9

(* With nothing left to read, what is there was opened.                    *)
LEMMA NothingIsLeft ==
  ASSUME agenda = <<>>, NEW types, NEW origin, NEW opened, Origins(origin),
         AllIsThere(types, origin, opened)
  PROVE  /\ Passing = dead
         /\ \A p : IsThere(opened, p) <=> p \in opened
         /\ \A q, m : MemberIsThere(opened, q, m) <=>
              \/ m.kind \in {"number", "pointer"} /\ Part(q, m.name, 1) \in DOMAIN memory
              \/ m.kind \in {"member", "array"} /\ \A j \in 1..m.n : Part(q, m.name, j) \in opened
         /\ \A q \in opened : Stands(types, origin, q) /\ ~IsTemporary(q) /\ q[1] \in Staying
<1>1. Elements(agenda) = {} /\ ToSet(agenda) = {}
  BY DEF Elements, ToSet
<1>2. Temporaries = {}
  BY <1>1 DEF Temporaries
<1>3. Passing = dead
  BY <1>2 DEF Passing
<1>4. ASSUME NEW p
      PROVE  IsThere(opened, p) <=> p \in opened
  BY <1>1 DEF IsThere, StructComes
<1>5. \A q, m : ~MemberComes(q, m)
  BY <1>1 DEF MemberComes
<1>6. ASSUME NEW q \in opened
      PROVE  Stands(types, origin, q) /\ ~IsTemporary(q) /\ q[1] \in Staying
  <2>1. Stands(types, origin, q)
    BY DEF AllIsThere, IsOpened
  <2>2. q[1] \in (0..made) \ dead
    BY <2>1 DEF Stands
  <2> QED  BY <1>3, <2>1, <2>2 DEF IsTemporary, Staying
<1>7. ASSUME NEW q, NEW m
      PROVE  MemberIsThere(opened, q, m) <=>
              \/ m.kind \in {"number", "pointer"} /\ Part(q, m.name, 1) \in DOMAIN memory
              \/ m.kind \in {"member", "array"} /\ \A j \in 1..m.n : Part(q, m.name, j) \in opened
  BY <1>4, <1>5 DEF MemberIsThere
<1> QED  BY <1>3, <1>4, <1>6, <1>7

(* A pointer holds an object that was opened.                              *)
LEMMA HeldIsOpened ==
  ASSUME NEW types, NEW origin, NEW opened, \A k \in Staying : <<k>> \in opened,
         NEW q, NEW m, NEW value, HoldsAsTold(types, origin, q, m, value)
  PROVE  HoldsAtLast(types, origin, opened, q, m, value)
<1>1. PICK letter, target : /\ letter = Letter(types)
                            /\ target = PointerSent(letter, Sent(origin, q), m.name)
  OBVIOUS
<1>2. m.kind = "number" => value = NumberSent(letter, Sent(origin, q), m.name)
  BY <1>1 DEF HoldsAsTold
<1>3. ASSUME m.kind = "pointer"
      PROVE  IF target = Null THEN value = Null
             ELSE \E k : <<k>> \in opened /\ value = <<k>> /\ origin[k] = target
  <2>1. IF target = Null THEN value = Null ELSE \E k \in Staying : value = <<k>> /\ origin[k] = target
    BY <1>1, <1>3 DEF HoldsAsTold
  <2> QED  BY <2>1
<1> QED  BY <1>1, <1>2, <1>3 DEF HoldsAtLast

(* A slot of a struct that was opened is that of a member that lasts.      *)
LEMMA SlotAtLast ==
  ASSUME NEW types, NEW origin, NEW q, IsPlace(q), ~IsTemporary(q), MemoryAsTold(types, origin),
         NEW name, NEW slot, slot = Part(q, name, 1), slot \in DOMAIN memory,
         NEW T, T = TypeOf(types, origin, q)
  PROVE  /\ name \in Lasting(reader, T, sctx.version)
         /\ \E m \in ToSet(MessageMembers(reader, T, sctx.version)) :
              /\ m.name = name /\ m.kind \in {"number", "pointer"}
              /\ HoldsAsTold(types, origin, q, m, memory[slot])
<1>1. PICK p, m : SlotIs(types, origin, slot, p, m, memory[slot])
  BY DEF MemoryAsTold
<1>2. /\ slot = Part(p, m.name, 1) /\ Stands(types, origin, p)
      /\ m \in ToSet(MessageMembers(reader, TypeOf(types, origin, p), sctx.version))
      /\ m.kind \in {"number", "pointer"}
      /\ m.name \in Lasting(reader, TypeOf(types, origin, p), sctx.version) \/ IsTemporary(p)
      /\ HoldsAsTold(types, origin, p, m, memory[slot])
  BY <1>1 DEF SlotIs
<1>3. IsPlace(p)
  BY <1>2 DEF Stands
<1>4. Part(q, name, 1) = Part(p, m.name, 1)
  BY <1>2
<1>5. q = p /\ name = m.name
  BY <1>3, <1>4, PartsDiffer
<1> QED  BY <1>2, <1>5

(* What a struct that was opened has at the end                            *)
LEMMA OpenedAtLast ==
  ASSUME agenda = <<>>, NEW types, NEW origin, NEW opened, Origins(origin),
         AllIsThere(types, origin, opened), MemoryAsTold(types, origin),
         NEW c, c = sctx.version, Plain(reader, c),
         NEW q \in opened, NEW T, T = types[Sent(origin, q)]
  PROVE  ArrivedAt(types, origin, opened, c, q, T)
<1>1. /\ Stands(types, origin, q) /\ ~IsTemporary(q) /\ q[1] \in Staying
      /\ \A m : MemberIsThere(opened, q, m) <=>
              \/ m.kind \in {"number", "pointer"} /\ Part(q, m.name, 1) \in DOMAIN memory
              \/ m.kind \in {"member", "array"} /\ \A j \in 1..m.n : Part(q, m.name, j) \in opened
  BY NothingIsLeft
<1>2. T = TypeOf(types, origin, q)
  BY DEF TypeOf
<1>3. IsPlace(q) /\ Sent(origin, q) \in DOMAIN types /\ Fits(reader, T, c) /\ q[1] \in 0..made
  BY <1>1, <1>2 DEF Stands, CanHold, Fits
<1>4. IsPlace(origin[q[1]]) /\ Len(origin[q[1]]) = 1
  BY <1>1, <1>3 DEF Origins
<1>5. \A k \in Staying : <<k>> \in opened
  BY NothingIsLeft DEF AllIsThere
<1>6. IsOpened(types, origin, opened, q)
  BY DEF AllIsThere
<1>7. \A m \in ToSet(MessageMembers(reader, T, c)) :
        m.name \in Lasting(reader, T, c) => MemberIsThere(opened, q, m)
  BY <1>2, <1>6 DEF IsOpened
<1>8. ASSUME NEW name, Part(q, name, 1) \in DOMAIN memory
      PROVE  /\ name \in Lasting(reader, T, c)
             /\ \E m \in ToSet(MessageMembers(reader, T, c)) :
                  /\ m.name = name /\ m.kind \in {"number", "pointer"}
                  /\ HoldsAsTold(types, origin, q, m, memory[Part(q, name, 1)])
  <2>1. PICK slot : slot = Part(q, name, 1)
    OBVIOUS
  <2> QED  BY <1>1, <1>2, <1>3, <1>8, <2>1, SlotAtLast
<1>9. ASSUME NEW m \in ToSet(MessageMembers(reader, T, c)), m.kind \in {"number", "pointer"},
             m.name \in Lasting(reader, T, c)
      PROVE  /\ Part(q, m.name, 1) \in DOMAIN memory
             /\ HoldsAtLast(types, origin, opened, q, m, memory[Part(q, m.name, 1)])
  <2>1. Part(q, m.name, 1) \in DOMAIN memory
    BY <1>1, <1>7, <1>9
  <2>2. PICK k \in ToSet(MessageMembers(reader, T, c)) :
          /\ k.name = m.name /\ k.kind \in {"number", "pointer"}
          /\ HoldsAsTold(types, origin, q, k, memory[Part(q, m.name, 1)])
    BY <1>8, <2>1
  <2>3. PICK V : V = VersionAt(reader, T, c)
    OBVIOUS
  <2>4. T \in DOMAIN reader.private /\ V \in ToSet(reader.private[T])
    BY <1>3, <2>3, VersionAtIs DEF Fits
  <2>5. ToSet(MessageMembers(reader, T, c)) = ToSet(reader.layout[T][V].members)
    BY <2>3 DEF MessageMembers
  <2>6. k.kind = m.kind
    BY <2>2, <2>4, <2>5, OneName
  <2>7. HoldsAsTold(types, origin, q, m, memory[Part(q, m.name, 1)])
    BY <2>2, <2>6 DEF HoldsAsTold
  <2> QED  BY <1>5, <2>1, <2>7, HeldIsOpened
<1>10. ASSUME NEW m \in ToSet(MessageMembers(reader, T, c)), m.kind \in {"member", "array"},
              m.name \in Lasting(reader, T, c), NEW j \in 1..m.n
       PROVE  Part(q, m.name, j) \in opened
  BY <1>1, <1>7, <1>10
<1> QED  BY <1>3, <1>4, <1>8, <1>9, <1>10 DEF ArrivedAt

(* Two objects that were met belong together.                              *)
Fitting(types, origin, opened, met) ==
  /\ met.got \in opened /\ met.sent = Sent(origin, met.got) /\ met.type = types[met.sent]

(* What is known of two objects that belong together, and of a member      *)
LEMMA FittingMember ==
  ASSUME NEW types, NEW origin, NEW opened, NEW c, Arrived(types, origin, opened, c),
         NEW met, Fitting(types, origin, opened, met),
         NEW sent, sent = met.sent, NEW got, got = met.got, NEW T, T = met.type,
         NEW m \in MembersRead(T)
  PROVE  /\ sent \in DOMAIN types /\ types[sent] = T /\ Fits(writer, T, c) /\ Fits(reader, T, c)
         /\ ArrivedAt(types, origin, opened, c, got, T)
         /\ sent = Sent(origin, got) /\ IsPlace(got) /\ IsPlace(origin[got[1]])
         /\ \A name, j : Sent(origin, Part(got, name, j)) = Part(sent, name, j)
         /\ Survives(T, m.name) <=> m.name \in Lasting(writer, T, c) /\ m.name \in Lasting(reader, T, c)
         /\ m.name \in Lasting(reader, T, c) =>
              \E k \in ToSet(MessageMembers(reader, T, c)) :
                /\ k.name = m.name /\ k.kind = m.kind /\ k.type = m.type /\ k.n = m.n
                /\ k.kind \in MemberKinds
         /\ m.kind # "array" => m.n = 1
<1>1. /\ c = sctx.version /\ TypedBy(writer, graph, types)
      /\ Plain(writer, c) /\ Plain(reader, c) /\ SameStructs(writer, reader, c)
      /\ ArrivedAt(types, origin, opened, c, got, types[Sent(origin, got)])
  BY DEF Arrived, Fitting
<1>2. got \in opened /\ sent = Sent(origin, got) /\ types[Sent(origin, got)] = T
  BY DEF Fitting
<1>3. ArrivedAt(types, origin, opened, c, got, T)
  BY <1>1, <1>2
<1>4. sent \in DOMAIN types /\ types[sent] = T /\ Fits(reader, T, c) /\ IsPlace(got) /\ IsPlace(origin[got[1]])
  BY <1>2, <1>3 DEF ArrivedAt
<1>5. ASSUME NEW name, NEW j
      PROVE  Sent(origin, Part(got, name, j)) = Part(sent, name, j)
  BY <1>2, <1>4, SentPart
<1>6. T \in DOMAIN writer.private
  BY <1>1, <1>4 DEF TypedBy
<1>7. Fits(writer, T, c)
  BY <1>1, <1>4, <1>6, SameMessage
<1>8. Survives(T, m.name) <=> m.name \in Lasting(writer, T, c) /\ m.name \in Lasting(reader, T, c)
  BY <1>1, <1>4, <1>7, SurvivesIs
<1>9. /\ \A k \in ToSet(MessageMembers(reader, T, c)) : k.name = m.name =>
              k.kind = m.kind /\ k.type = m.type /\ k.n = m.n
      /\ m.name \in Lasting(reader, T, c) =>
              \E k \in ToSet(MessageMembers(reader, T, c)) : k.name = m.name
      /\ m.kind # "array" => m.n = 1
  BY <1>1, <1>4, MemberOfMessage
<1>10. \A k \in ToSet(MessageMembers(reader, T, c)) : k.kind \in MemberKinds
  BY <1>1, <1>4, MessageMembersAre
<1> QED  BY <1>2, <1>3, <1>4, <1>5, <1>7, <1>8, <1>9, <1>10

(* What the reader has of a member                                         *)
ReaderHasOf(origin, opened, met, m) ==
  LET value == At(memory, Part(met.got, m.name, 1))
      target == At(graph, Part(met.sent, m.name, 1))
      survives == Survives(met.type, m.name)
  IN  /\ m.kind = "number" =>
           value = IF survives THEN Part(met.sent, m.name, 1) ELSE Null
      /\ m.kind = "pointer" =>
           IF ~survives \/ target = Null THEN value = Null
           ELSE \E k : value = <<k>> /\ <<k>> \in opened /\ origin[k] = target
      /\ m.kind \in {"member", "array"} /\ survives =>
           \A j \in 1..m.n : Part(met.got, m.name, j) \in opened

(* Every member of two objects that belong together arrives.               *)
LEMMA MemberArrives ==
  ASSUME NEW types, NEW origin, NEW opened, NEW c, Arrived(types, origin, opened, c),
         NEW met, Fitting(types, origin, opened, met), NEW m \in MembersRead(met.type)
  PROVE  ReaderHasOf(origin, opened, met, m)
<1>1. PICK sent, got, T, value, target :
        /\ sent = met.sent /\ got = met.got /\ T = met.type
        /\ value = At(memory, Part(got, m.name, 1)) /\ target = At(graph, Part(sent, m.name, 1))
  OBVIOUS
<1>2. /\ types[sent] = T /\ ArrivedAt(types, origin, opened, c, got, T) /\ sent = Sent(origin, got)
      /\ Survives(T, m.name) <=> m.name \in Lasting(writer, T, c) /\ m.name \in Lasting(reader, T, c)
      /\ m.name \in Lasting(reader, T, c) =>
              \E k \in ToSet(MessageMembers(reader, T, c)) :
                /\ k.name = m.name /\ k.kind = m.kind /\ k.n = m.n
  BY <1>1, FittingMember
<1>3. PICK slot : slot = Part(got, m.name, 1)
  OBVIOUS
<1>4. CASE m.name \notin Lasting(reader, T, c)
  <2>1. slot \notin DOMAIN memory
    BY <1>2, <1>3, <1>4 DEF ArrivedAt
  <2>2. value = Null
    BY <1>3, <1>1, <2>1 DEF At
  <2>3. ~Survives(T, m.name)
    BY <1>2, <1>4
  <2> QED  BY <1>1, <2>2, <2>3 DEF ReaderHasOf
<1>5. CASE m.name \in Lasting(reader, T, c)
  <2>1. PICK k \in ToSet(MessageMembers(reader, T, c)) : k.name = m.name /\ k.kind = m.kind /\ k.n = m.n
    BY <1>2, <1>5
  <2>2. /\ k.kind \in {"number", "pointer"} =>
             slot \in DOMAIN memory /\ HoldsAtLast(types, origin, opened, got, k, memory[slot])
        /\ k.kind \in {"member", "array"} => \A j \in 1..k.n : Part(got, m.name, j) \in opened
    BY <1>2, <1>3, <1>5, <2>1 DEF ArrivedAt
  <2>3. k.kind \in {"number", "pointer"} => HoldsAtLast(types, origin, opened, got, k, value)
    BY <1>3, <1>1, <2>2 DEF At
  <2>4. PICK letter : letter = Letter(types)
    OBVIOUS
  <2>5. Sends(letter, sent, m.name) <=> Survives(T, m.name)
    <3>1. letter.types[sent] = T /\ letter.build = writer /\ letter.ctx.version = c
      BY <1>2, <2>4 DEF Letter, Arrived
    <3> QED  BY <1>2, <1>5, <3>1 DEF Sends
  <2>6. m.kind = "number" => value = IF Survives(T, m.name) THEN Part(sent, m.name, 1) ELSE Null
    BY <1>2, <2>1, <2>3, <2>4, <2>5 DEF HoldsAtLast, NumberSent
  <2>7. PointerSent(letter, sent, m.name) = IF Survives(T, m.name) THEN target ELSE Null
    <3>1. letter.graph = graph
      BY <2>4 DEF Letter
    <3> QED  BY <1>1, <2>5, <3>1 DEF PointerSent
  <2>8. ASSUME m.kind = "pointer"
        PROVE  IF ~Survives(T, m.name) \/ target = Null THEN value = Null
               ELSE \E i : value = <<i>> /\ <<i>> \in opened /\ origin[i] = target
    <3>1. IF PointerSent(letter, sent, m.name) = Null THEN value = Null
          ELSE \E i : <<i>> \in opened /\ value = <<i>> /\ origin[i] = PointerSent(letter, sent, m.name)
      BY <1>2, <2>1, <2>3, <2>4, <2>8 DEF HoldsAtLast
    <3> QED  BY <2>7, <3>1
  <2> QED  BY <1>1, <2>1, <2>2, <2>6, <2>8 DEF ReaderHasOf
<1> QED  BY <1>4, <1>5

(* What stands in an object, in the writer and in the reader               *)
Stood(met, m, j) == [sent |-> Part(met.sent, m.name, j), got |-> Part(met.got, m.name, j), type |-> m.type]

(* What a pointer of an object leads to, in the writer and in the reader   *)
LedTo(met, m) == [sent |-> At(graph, Part(met.sent, m.name, 1)),
                      got |-> At(memory, Part(met.got, m.name, 1)), type |-> m.type]

(* What is inside is one or the other.                                     *)
LEMMA InsideIs ==
  ASSUME NEW met, \A m \in MembersRead(met.type) : m.kind \in MemberKinds /\ (m.kind # "array" => m.n = 1),
         NEW x \in Inside(met)
  PROVE  \E m \in MembersRead(met.type) :
           /\ Survives(met.type, m.name)
           /\ \/ m.kind \in {"member", "array"} /\ \E j \in 1..m.n : x = Stood(met, m, j)
              \/ m.kind = "pointer" /\ x = LedTo(met, m) /\ x.sent # Null
<1> DEFINE members == {m \in MembersRead(met.type) : m.kind # "number" /\ Survives(met.type, m.name)}
           places == UNION {{Stood(met, m, j) : j \in 1..m.n} : m \in members}
           isPointer(p) == \E m \in members : m.kind = "pointer" /\ p = Stood(met, m, 1)
           follow(p) == [p EXCEPT !.sent = At(graph, @), !.got = At(memory, @)]
<1>1. Inside(met) = {p \in places : ~isPointer(p)} \cup
                    {p \in {follow(q) : q \in {y \in places : isPointer(y)}} : p.sent # Null}
  BY DEF Inside, Stood
<1>2. CASE x \in places /\ ~isPointer(x)
  <2>1. PICK m \in members : \E j \in 1..m.n : x = Stood(met, m, j)
    BY <1>2
  <2>2. PICK j \in 1..m.n : x = Stood(met, m, j)
    BY <2>1
  <2>3. m.kind # "pointer"
    <3>1. m \in MembersRead(met.type)
      OBVIOUS
    <3>2. SUFFICES ASSUME m.kind = "pointer" PROVE FALSE
      OBVIOUS
    <3>3. m.n = 1
      BY <3>1, <3>2
    <3>4. j = 1
      BY <2>2, <3>3
    <3> QED  BY <1>2, <2>2, <3>2, <3>4
  <2>4. m \in MembersRead(met.type) /\ m.kind # "number" /\ Survives(met.type, m.name)
    OBVIOUS
  <2>5. m.kind \in {"member", "array"}
    BY <2>3, <2>4 DEF MemberKinds
  <2> QED  BY <2>2, <2>4, <2>5
<1>3. CASE \E q : isPointer(q) /\ x = follow(q) /\ x.sent # Null
  <2>1. PICK q : isPointer(q) /\ x = follow(q) /\ x.sent # Null
    BY <1>3
  <2>2. PICK m \in members : m.kind = "pointer" /\ q = Stood(met, m, 1)
    BY <2>1
  <2>3. follow(q) = LedTo(met, m)
    <3>1. PICK a, b, T : /\ a = Part(met.sent, m.name, 1) /\ b = Part(met.got, m.name, 1)
                         /\ T = m.type
      OBVIOUS
    <3>2. q = [sent |-> a, got |-> b, type |-> T]
      BY <2>2, <3>1 DEF Stood
    <3>3. q.sent = a /\ q.got = b
      BY <3>2
    <3>4. PICK A, B : A = At(graph, a) /\ B = At(memory, b)
      OBVIOUS
    <3>5. PICK r : r = [q EXCEPT !.sent = A, !.got = B]
      OBVIOUS
    <3>6. follow(q) = r
      BY <3>3, <3>4, <3>5
    <3>7. DOMAIN q = {"sent", "got", "type"}
      BY <3>2
    <3>8. DOMAIN r = DOMAIN q /\ r = [i \in DOMAIN r |-> r[i]]
      BY <3>5
    <3>9. r.sent = A /\ r.got = B /\ r.type = T
      BY <3>2, <3>5, <3>7
    <3>10. r = [sent |-> A, got |-> B, type |-> T]
      BY <3>7, <3>8, <3>9
    <3> QED  BY <3>1, <3>4, <3>6, <3>10 DEF LedTo
  <2> QED  BY <2>1, <2>2, <2>3
<1> HIDE DEF isPointer, follow, places
<1>4. (x \in places /\ ~isPointer(x)) \/ (\E q : isPointer(q) /\ x = follow(q) /\ x.sent # Null)
  BY <1>1
<1> QED  BY <1>2, <1>3, <1>4

(* What is inside two objects that belong together belongs together.       *)
LEMMA InsideFits ==
  ASSUME NEW types, NEW origin, NEW opened, NEW c, Arrived(types, origin, opened, c),
         NEW met, Fitting(types, origin, opened, met), NEW x \in Inside(met)
  PROVE  Fitting(types, origin, opened, x)
<1>1. PICK sent, got, T : sent = met.sent /\ got = met.got /\ T = met.type
  OBVIOUS
<1>2. /\ c = sctx.version /\ TypedBy(writer, graph, types)
      /\ Plain(writer, c) /\ Plain(reader, c) /\ SameStructs(writer, reader, c)
      /\ \A q \in opened : ArrivedAt(types, origin, opened, c, q, types[Sent(origin, q)])
  BY DEF Arrived
<1>3. got \in opened /\ sent = Sent(origin, got) /\ T = types[sent]
  BY <1>1 DEF Fitting
<1>4. ArrivedAt(types, origin, opened, c, got, T)
  BY <1>2, <1>3
<1>5. Fits(reader, T, c) /\ sent \in DOMAIN types
  BY <1>3, <1>4 DEF ArrivedAt
<1>6. ASSUME NEW m \in MembersRead(T)
      PROVE  m.kind \in MemberKinds /\ (m.kind # "array" => m.n = 1)
  <2>1. PICK L : L = getLatestPrivateVersion(reader, T)
    OBVIOUS
  <2>2. L \in ToSet(reader.private[T]) /\ T \in DOMAIN reader.private
    <3>1. PICK V : V = VersionAt(reader, T, c)
      OBVIOUS
    <3> QED  BY <1>2, <1>5, <2>1, <3>1, VersionAtIs DEF Fits
  <2>3. m \in ToSet(reader.layout[T][L].members)
    BY <2>1 DEF MembersRead
  <2>4. IsBuild(reader)
    BY <1>2 DEF Plain
  <2>5. reader.layout[T][L].members \in Seq(Members)
    BY <2>2, <2>4, LayoutIs
  <2>6. m \in Members
    <3>1. PICK s : s = reader.layout[T][L].members
      OBVIOUS
    <3>2. s \in Seq(Members)
      BY <2>5, <3>1
    <3>3. ToSet(s) \subseteq Members
      BY <3>2, SequenceIs
    <3> QED  BY <2>3, <3>1, <3>3
  <2>7. m.kind \in MemberKinds
    BY <2>6 DEF Members
  <2>8. m.kind # "array" => m.n = 1
    BY <1>2, <1>5, MemberOfMessage
  <2> QED  BY <2>7, <2>8
<1>7. PICK m \in MembersRead(T) :
        /\ Survives(T, m.name)
        /\ \/ m.kind \in {"member", "array"} /\ \E j \in 1..m.n : x = Stood(met, m, j)
           \/ m.kind = "pointer" /\ x = LedTo(met, m) /\ x.sent # Null
  <2>1. \A k \in MembersRead(met.type) : k.kind \in MemberKinds /\ (k.kind # "array" => k.n = 1)
    BY <1>1, <1>6
  <2> QED  BY <1>1, <2>1, InsideIs
<1>8. PICK value, target : value = At(memory, Part(got, m.name, 1)) /\ target = At(graph, Part(sent, m.name, 1))
  OBVIOUS
<1>9. /\ m.kind = "pointer" =>
              IF ~Survives(T, m.name) \/ target = Null THEN value = Null
              ELSE \E k : value = <<k>> /\ <<k>> \in opened /\ origin[k] = target
      /\ m.kind \in {"member", "array"} /\ Survives(T, m.name) =>
              \A j \in 1..m.n : Part(got, m.name, j) \in opened
  <2>1. ReaderHasOf(origin, opened, met, m)
    BY <1>1, MemberArrives
  <2> QED  BY <1>1, <1>8, <2>1 DEF ReaderHasOf
<1>10. /\ \A name, j : Sent(origin, Part(got, name, j)) = Part(sent, name, j)
       /\ Survives(T, m.name) <=> m.name \in Lasting(writer, T, c) /\ m.name \in Lasting(reader, T, c)
       /\ m.name \in Lasting(reader, T, c) =>
              \E k \in ToSet(MessageMembers(reader, T, c)) :
                k.name = m.name /\ k.kind = m.kind /\ k.type = m.type /\ k.n = m.n
  BY <1>1, FittingMember
<1>11. PICK k \in ToSet(MessageMembers(reader, T, c)) :
         k.name = m.name /\ k.kind = m.kind /\ k.type = m.type /\ k.n = m.n
  BY <1>7, <1>10
<1>12. /\ k.kind \in {"member", "array"} =>
              \A j \in 1..k.n : types[Part(sent, k.name, j)] = k.type
       /\ k.kind = "pointer" /\ target # Null => types[target] = k.type
  <2>1. target = At(graph, Part(sent, k.name, 1))
    BY <1>8, <1>11
  <2> QED  BY <1>2, <1>3, <1>5, <2>1, MemberIsTyped
<1>13. CASE m.kind \in {"member", "array"} /\ \E j \in 1..m.n : x = Stood(met, m, j)
  <2>1. PICK j \in 1..m.n : x = Stood(met, m, j)
    BY <1>13
  <2>2. x.sent = Part(sent, m.name, j) /\ x.got = Part(got, m.name, j) /\ x.type = m.type
    BY <1>1, <2>1 DEF Stood
  <2>3. x.got \in opened
    BY <1>7, <1>9, <1>13, <2>2
  <2>4. x.sent = Sent(origin, x.got)
    BY <1>10, <2>2
  <2>5. types[x.sent] = m.type
    BY <1>11, <1>12, <1>13, <2>2
  <2> QED  BY <2>2, <2>3, <2>4, <2>5 DEF Fitting
<1>14. CASE m.kind = "pointer" /\ x = LedTo(met, m) /\ x.sent # Null
  <2>1. x.sent = target /\ x.got = value /\ x.type = m.type
    BY <1>1, <1>8, <1>14 DEF LedTo
  <2>2. PICK i : value = <<i>> /\ <<i>> \in opened /\ origin[i] = target
    BY <1>7, <1>9, <1>14, <2>1
  <2>3. IsPlace(origin[i])
    <3>1. ArrivedAt(types, origin, opened, c, <<i>>, types[Sent(origin, <<i>>)])
      BY <1>2, <2>2
    <3> QED  BY <3>1 DEF ArrivedAt
  <2>4. Sent(origin, x.got) = x.sent
    BY <2>1, <2>2, <2>3, SentObject
  <2>5. types[x.sent] = m.type
    BY <1>11, <1>12, <1>14, <2>1
  <2> QED  BY <2>1, <2>2, <2>4, <2>5 DEF Fitting
<1> QED  BY <1>7, <1>13, <1>14

(* The objects that are met first, and those that are met after others     *)
AtFirst == {[sent |-> Root, got |-> TheCopy, type |-> RootType]}

(* What is met after some objects: they, and what is inside them           *)
AfterThem(objects) == objects \cup UNION {Inside(m) : m \in objects}

(* What is met in steps, up to a number of them                            *)
MetTill(F, n) == F[0] = AtFirst /\ \A i \in 1..n : F[i] = AfterThem(F[i - 1])

(* There is a way to meet them, for any number of steps.                   *)
LEMMA MetTillOne ==
  ASSUME NEW n \in Nat
  PROVE  \E F : MetTill(F, n)
<1> DEFINE M == {m \in Nat : \E F : MetTill(F, m)}
<1>1. 0 \in M
  <2>1. PICK f : f = [i \in 0..0 |-> AtFirst]
    OBVIOUS
  <2>2. MetTill(f, 0)
    BY <2>1 DEF MetTill
  <2> QED  BY <2>2
<1>2. ASSUME NEW m \in Nat, m \in M
      PROVE  m + 1 \in M
  <2>1. PICK F : MetTill(F, m)
    BY <1>2
  <2>2. PICK G : G = [i \in 0..m + 1 |-> IF i = m + 1 THEN AfterThem(F[m]) ELSE F[i]]
    OBVIOUS
  <2>3. G[0] = AtFirst
    BY <2>1, <2>2 DEF MetTill
  <2>4. ASSUME NEW i \in 1..m + 1
        PROVE  G[i] = AfterThem(G[i - 1])
    <3>1. G[i - 1] = F[i - 1]
      BY <2>2
    <3>2. CASE i = m + 1
      BY <2>2, <3>1, <3>2
    <3>3. CASE i # m + 1
      <4>1. i \in 1..m /\ G[i] = F[i]
        BY <2>2, <3>3
      <4> QED  BY <2>1, <3>1, <4>1 DEF MetTill
    <3> QED  BY <3>2, <3>3
  <2>5. MetTill(G, m + 1)
    BY <2>3, <2>4 DEF MetTill
  <2> QED  BY <2>5
<1> HIDE DEF M
<1>3. n \in M
  BY <1>1, <1>2, NumbersByInduction
<1> QED  BY <1>3 DEF M

(* There is one way to meet them.                                          *)
LEMMA MetTillAgree ==
  ASSUME NEW n \in Nat, NEW m \in Nat, n <= m, NEW F, MetTill(F, n), NEW G, MetTill(G, m)
  PROVE  F[n] = G[n]
<1> DEFINE M == {i \in Nat : i <= n => F[i] = G[i]}
<1>1. 0 \in M
  BY DEF MetTill
<1>2. ASSUME NEW i \in Nat, i \in M
      PROVE  i + 1 \in M
  <2> SUFFICES ASSUME i + 1 <= n
               PROVE  F[i + 1] = G[i + 1]
    OBVIOUS
  <2>1. F[i] = G[i]
    BY <1>2
  <2>2. PICK j : j = i + 1
    OBVIOUS
  <2>3. j \in 1..n /\ j \in 1..m /\ j - 1 = i
    BY <2>2
  <2>4. F[j] = AfterThem(F[j - 1]) /\ G[j] = AfterThem(G[j - 1])
    BY <2>3 DEF MetTill
  <2> QED  BY <2>1, <2>2, <2>3, <2>4
<1> HIDE DEF M
<1>3. n \in M
  BY <1>1, <1>2, NumbersByInduction
<1> QED  BY <1>3 DEF M

(* The definition of what is met by what was met before makes a function.  *)
LEMMA MetExists ==
  \E F : F = [n \in Nat |-> IF n = 0 THEN AtFirst ELSE AfterThem(F[n - 1])]
<1> DEFINE Some(n) == CHOOSE F : MetTill(F, n)
           G == [n \in Nat |-> Some(n)[n]]
<1>1. \A n \in Nat : MetTill(Some(n), n)
  BY MetTillOne
<1> HIDE DEF Some
<1>2. \A n \in Nat : G[n] = Some(n)[n]
  OBVIOUS
<1>3. G = [n \in Nat |-> G[n]]
  OBVIOUS
<1> HIDE DEF G
<1>4. ASSUME NEW n \in Nat
      PROVE  G[n] = IF n = 0 THEN AtFirst ELSE AfterThem(G[n - 1])
  <2>1. CASE n = 0
    BY <1>1, <1>2, <2>1 DEF MetTill
  <2>2. CASE n # 0
    <3>1. PICK k : k = n - 1
      OBVIOUS
    <3>2. k \in Nat /\ n \in 1..n /\ k <= n
      BY <2>2, <3>1
    <3>3. PICK H, J : H = Some(n) /\ J = Some(k)
      OBVIOUS
    <3>4. MetTill(H, n) /\ MetTill(J, k) /\ G[n] = H[n] /\ G[k] = J[k]
      BY <1>1, <1>2, <3>2, <3>3
    <3>5. H[n] = AfterThem(H[k])
      BY <3>1, <3>2, <3>4 DEF MetTill
    <3>6. J[k] = H[k]
      BY <3>2, <3>4, MetTillAgree
    <3> QED  BY <2>2, <3>1, <3>4, <3>5, <3>6
  <2> QED  BY <2>1, <2>2
<1>5. G = [n \in Nat |-> IF n = 0 THEN AtFirst ELSE AfterThem(G[n - 1])]
  BY <1>3, <1>4
<1> QED  BY <1>5

(* All that is met belongs together.                                       *)
LEMMA MetFits ==
  ASSUME IsFiniteSet(DOMAIN graph),
         NEW types, NEW origin, NEW opened, NEW c, Arrived(types, origin, opened, c)
  PROVE  \A met \in Met : Fitting(types, origin, opened, met)
<1> DEFINE R(F) == F = [n \in Nat |-> IF n = 0 THEN AtFirst ELSE AfterThem(F[n - 1])]
           G == CHOOSE F : R(F)
           last == Cardinality(DOMAIN graph) + 1
<1>1. Met = G[last]
  BY DEF Met, AtFirst, AfterThem
<1>2. \E F : R(F)
  BY MetExists
<1> HIDE DEF R
<1>3. R(G)
  BY <1>2
<1> HIDE DEF G
<1>4. \A n \in Nat : G[n] = IF n = 0 THEN AtFirst ELSE AfterThem(G[n - 1])
  BY <1>3 DEF R
<1> DEFINE M == {n \in Nat : \A met \in G[n] : Fitting(types, origin, opened, met)}
<1>5. 0 \in M
  <2>1. PICK first : first = [sent |-> Root, got |-> TheCopy, type |-> RootType]
    OBVIOUS
  <2>2. G[0] = {first}
    BY <1>4, <2>1 DEF AtFirst
  <2>3. origin[0] = Root /\ <<0>> \in opened /\ types[Root] = RootType
    BY DEF Arrived, TypedBy
  <2>4. IsPlace(Root)
    BY ObjectIsPlace DEF Root
  <2>5. Sent(origin, <<0>>) = Root
    BY <2>3, <2>4, SentObject
  <2>6. first.sent = Root /\ first.got = <<0>> /\ first.type = RootType
    BY <2>1 DEF TheCopy
  <2>7. Fitting(types, origin, opened, first)
    BY <2>3, <2>5, <2>6 DEF Fitting
  <2> QED  BY <2>2, <2>7
<1>6. ASSUME NEW n \in Nat, n \in M
      PROVE  n + 1 \in M
  <2>1. G[n + 1] = AfterThem(G[n])
    <3>1. n + 1 \in Nat /\ n + 1 # 0 /\ n + 1 - 1 = n
      OBVIOUS
    <3> QED  BY <1>4, <3>1
  <2>2. ASSUME NEW met \in AfterThem(G[n])
        PROVE  Fitting(types, origin, opened, met)
    <3>1. CASE met \in G[n]
      BY <1>6, <3>1
    <3>2. CASE \E x \in G[n] : met \in Inside(x)
      <4>1. PICK x \in G[n] : met \in Inside(x)
        BY <3>2
      <4>2. Fitting(types, origin, opened, x)
        BY <1>6
      <4> QED  BY <4>1, <4>2, InsideFits
    <3> QED  BY <3>1, <3>2 DEF AfterThem
  <2> QED  BY <2>1, <2>2
<1>7. last \in Nat
  BY FS_CardinalityType
<1> HIDE DEF M, last
<1>8. last \in M
  BY <1>5, <1>6, <1>7, NumbersByInduction
<1> QED  BY <1>1, <1>8 DEF M

(* What was met is an object, and not a part of one.                       *)
IsAnObject(met) == Len(met.sent) = 1

(* An object of the writer became one of the reader.                       *)
Became(origin, opened, met) ==
  \E k : met.got = <<k>> /\ <<k>> \in opened /\ met.sent = origin[k]

(* One object of the writer became one object of the reader.               *)
LEMMA ObjectsFit ==
  ASSUME NEW types, NEW origin, NEW opened, NEW c, Arrived(types, origin, opened, c),
         NEW met, Fitting(types, origin, opened, met), IsAnObject(met)
  PROVE  Became(origin, opened, met)
<1>1. PICK got, k : got = met.got /\ k = got[1]
  OBVIOUS
<1>2. got \in opened /\ met.sent = Sent(origin, got)
  BY <1>1 DEF Fitting
<1>3. ArrivedAt(types, origin, opened, c, got, types[Sent(origin, got)])
  BY <1>2 DEF Arrived
<1>4. IsPlace(got) /\ IsPlace(origin[k]) /\ Len(origin[k]) = 1
  BY <1>1, <1>3 DEF ArrivedAt
<1>5. Len(Sent(origin, got)) = Len(origin[k]) + Len(got) - 1
  BY <1>1, <1>4, SentPart
<1>6. Len(got) = 1
  <2>1. PICK n : n = Len(got)
    OBVIOUS
  <2>2. n \in Nat
    BY <1>4, <2>1 DEF IsPlace, IsSequence
  <2>3. Len(met.sent) = 1 + n - 1
    BY <1>2, <1>4, <1>5, <2>1
  <2>4. 1 = 1 + n - 1
    BY <2>3 DEF IsAnObject
  <2>5. n = 1
    BY <2>2, <2>4
  <2> QED  BY <2>1, <2>5
<1>7. got = <<k>>
  <2>1. IsSequence(got)
    BY <1>4 DEF IsPlace
  <2>2. got = [i \in 1..1 |-> got[i]]
    BY <1>6, <2>1 DEF IsSequence
  <2> QED  BY <1>1, <2>2
<1>8. Sent(origin, <<k>>) = origin[k]
  BY <1>4, SentObject
<1> QED  BY <1>1, <1>2, <1>7, <1>8 DEF Became

(* What has arrived was received as it was sent.                           *)
HasArrived ==
  IsFiniteSet(DOMAIN graph) /\ \E types, origin, opened, c : Arrived(types, origin, opened, c)

(* Then the numbers and the null pointers are those that were sent.        *)
LEMMA ArrivedAsSent == HasArrived => ReceivedAsSent
<1> SUFFICES ASSUME HasArrived PROVE ReceivedAsSent
  OBVIOUS
<1>1. PICK types, origin, opened, c : Arrived(types, origin, opened, c)
  BY DEF HasArrived
<1>2. ASSUME NEW met \in Met, NEW m \in MembersRead(met.type)
      PROVE  LET sent == Part(met.sent, m.name, 1)
                 got == At(memory, Part(met.got, m.name, 1))
             IN  /\ m.kind = "number" =>
                       got = IF Survives(met.type, m.name) THEN sent ELSE Null
                 /\ m.kind = "pointer" =>
                       (got = Null <=> ~Survives(met.type, m.name) \/ At(graph, sent) = Null)
  <2>1. Fitting(types, origin, opened, met)
    BY <1>1, MetFits DEF HasArrived
  <2>2. ReaderHasOf(origin, opened, met, m)
    BY <1>1, <2>1, MemberArrives
  <2>3. \A k : <<k>> # Null
    BY DEF Null
  <2>4. PICK got, target : /\ got = At(memory, Part(met.got, m.name, 1))
                           /\ target = At(graph, Part(met.sent, m.name, 1))
    OBVIOUS
  <2>5. m.kind = "number" => got = IF Survives(met.type, m.name) THEN Part(met.sent, m.name, 1) ELSE Null
    BY <2>2, <2>4 DEF ReaderHasOf
  <2>6. m.kind = "pointer" =>
          IF ~Survives(met.type, m.name) \/ target = Null THEN got = Null ELSE \E k : got = <<k>>
    BY <2>2, <2>4 DEF ReaderHasOf
  <2> QED  BY <2>3, <2>4, <2>5, <2>6
<1> QED  BY <1>2 DEF ReceivedAsSent

(* Then pointers to one object lead to one object.                         *)
LEMMA ArrivedShared == HasArrived => SharedStaysShared
<1> SUFFICES ASSUME HasArrived, "checkRecursivePointers" \in sctx.flags,
                    NEW x \in Met, NEW y \in Met, IsAnObject(x), IsAnObject(y)
             PROVE  x.sent = y.sent <=> x.got = y.got
  BY DEF SharedStaysShared, IsAnObject
<1>1. PICK types, origin, opened, c : Arrived(types, origin, opened, c)
  BY DEF HasArrived
<1>2. Fitting(types, origin, opened, x) /\ Fitting(types, origin, opened, y)
  BY <1>1, MetFits DEF HasArrived
<1>3. Became(origin, opened, x) /\ Became(origin, opened, y)
  BY <1>1, <1>2, ObjectsFit
<1>4. PICK k : x.got = <<k>> /\ <<k>> \in opened /\ x.sent = origin[k]
  BY <1>3 DEF Became
<1>5. PICK l : y.got = <<l>> /\ <<l>> \in opened /\ y.sent = origin[l]
  BY <1>3 DEF Became
<1>6. origin[k] = origin[l] => k = l
  BY <1>1, <1>4, <1>5 DEF Arrived
<1>7. <<k>> = <<l>> => k = l
  OBVIOUS
<1> QED  BY <1>4, <1>5, <1>6, <1>7

(* Nothing that it depends on changes.                                     *)
LEMMA ArrivedStays ==
  ASSUME UNCHANGED <<pair, graph, sctx, memory>>,
         NEW types, NEW origin, NEW opened, NEW c, Arrived(types, origin, opened, c)
  PROVE  Arrived(types, origin, opened, c)'
<1>1. reader' = reader /\ writer' = writer
  BY DEF reader, writer
<1>2. Letter(types)' = Letter(types)
  BY <1>1 DEF Letter
<1>3. ASSUME NEW q, NEW T, ArrivedAt(types, origin, opened, c, q, T)
      PROVE  ArrivedAt(types, origin, opened, c, q, T)'
  <2>1. \A m, value : HoldsAtLast(types, origin, opened, q, m, value) =>
                        HoldsAtLast(types, origin, opened, q, m, value)'
    BY <1>2 DEF HoldsAtLast
  <2> QED  BY <1>1, <1>3, <2>1 DEF ArrivedAt
<1> QED  BY <1>1, <1>3 DEF Arrived, TypedBy

(* With nothing left to read, all has arrived.                             *)
LEMMA AllArrives ==
  ASSUME PlainStructs, OneHistory, ReadingInv, PlainGraph, NEW types, TypedBy(writer, graph, types),
         ReadAsTold(types), phase = "read", agenda = <<>>
  PROVE  \E origin, opened, c : Arrived(types, origin, opened, c)
<1>1. PICK origin, numbered, opened : ReaderKnows(types, origin, numbered, opened)
  BY DEF ReadAsTold
<1>2. PICK c : c = sctx.version
  OBVIOUS
<1>3. Plain(writer, c) /\ Plain(reader, c)
  BY <1>2, SidesArePlain
<1>4. SameStructs(writer, reader, c)
  <2>1. pair \in Pairs /\ c <= writer.interface /\ c <= reader.interface
    BY <1>2 DEF ReadingInv, BodyInv, Typed, ContextsAgree
  <2>2. c \in Nat /\ writer.interface \in Nat
    BY <1>3 DEF Plain, IsBuild
  <2>3. c \in 0..writer.interface
    BY <2>1, <2>2
  <2> QED  BY <2>1, <2>3 DEF OneHistory, writer, reader
<1>5. /\ Origins(origin) /\ MemoryAsTold(types, origin) /\ AllIsThere(types, origin, opened)
      /\ NumberedAsTold(origin, numbered)
  BY <1>1 DEF ReaderKnows
<1>6. \A q \in opened : ArrivedAt(types, origin, opened, c, q, types[Sent(origin, q)])
  BY <1>2, <1>3, <1>5, OpenedAtLast
<1>7. /\ \A p : IsThere(opened, p) <=> p \in opened
      /\ \A q \in opened : q[1] \in Staying
  BY <1>5, NothingIsLeft
<1>8. origin[0] = Root /\ <<0>> \in opened
  BY <1>5, <1>7 DEF Origins, AllIsThere
<1>9. ASSUME "checkRecursivePointers" \in sctx.flags, NEW k, NEW l,
             <<k>> \in opened, <<l>> \in opened, origin[k] = origin[l]
      PROVE  k = l
  <2>1. <<k>>[1] = k /\ <<l>>[1] = l
    OBVIOUS
  <2>2. k \in Staying /\ l \in Staying
    BY <1>7, <1>9, <2>1
  <2> QED  BY <1>5, <1>9, <2>2 DEF NumberedAsTold
<1> QED  BY <1>2, <1>3, <1>4, <1>6, <1>8, <1>9 DEF Arrived

-----------------------------------------------------------------------------
(* The invariant.                                                          *)

(* While neither the builds nor the writer's pointers change, the types do *)
(* not.                                                                    *)
LEMMA SameGraph ==
  ASSUME UNCHANGED <<pair, graph>>
  PROVE  /\ PlainGraph' <=> PlainGraph
         /\ \A types : TypedBy(writer, graph, types)' <=> TypedBy(writer, graph, types)
<1>1. writer' = writer
  BY DEF writer
<1>2. \A types : TypedBy(writer, graph, types)' <=> TypedBy(writer, graph, types)
  BY <1>1 DEF TypedBy, TypedParts
<1> QED  BY <1>1, <1>2 DEF PlainGraph

(* A step that does not end a message                                      *)
LEMMA ToldOn ==
  ASSUME SharingInv, ReadingInv', UNCHANGED <<pair, graph>>, status' # "received",
         ASSUME NEW types, TypedBy(writer, graph, types), PlainGraph,
                WrittenAsTold(types), ReadAsTold(types)
         PROVE  WrittenAsTold(types)' /\ ReadAsTold(types)'
  PROVE  SharingInv'
<1>1. ASSUME PlainGraph', NEW types, TypedBy(writer, graph, types)'
      PROVE  WrittenAsTold(types)' /\ ReadAsTold(types)'
  <2>1. PlainGraph /\ TypedBy(writer, graph, types)
    BY <1>1, SameGraph
  <2>2. WrittenAsTold(types) /\ ReadAsTold(types)
    BY <2>1 DEF SharingInv
  <2> QED  BY <2>1, <2>2
<1> QED  BY <1>1 DEF SharingInv

(* A step after which nothing is left of a message                         *)
LEMMA ToldAgain ==
  ASSUME ReadingInv', phase' = "idle", status' # "received"
  PROVE  SharingInv'
<1>1. \A types : WrittenAsTold(types)' /\ ReadAsTold(types)'
  BY StopTells
<1> QED  BY <1>1 DEF SharingInv

(* What a step of the writer leaves alone                                  *)
LEMMA WriterSteps ==
  ASSUME InOrder,
         \/ ToOldStruct \/ SerializeStruct \/ SerializeMember \/ SerializeNumber
         \/ SerializeArray \/ SerializeElement \/ SerializePointer \/ EndOfWriting
  PROVE  UNCHANGED <<pair, graph>> /\ phase' # "read" /\ status' # "received"
<1>1. phase = "write" => status = "writing"
  BY DEF InOrder
<1> QED  BY <1>1 DEF ToOldStruct, SerializeStruct, SerializeMember, SerializeNumber,
            SerializeArray,
            SerializeElement, SerializePointer, EndOfWriting, Doing, Continue, Stop, NoMemory, writerVars

(* A step goes on with a message, or gives it up.                          *)
Going == UNCHANGED <<phase, status>> \/ (phase' = "idle" /\ status' # "received")

(* A step of the reader within a message leaves the writer alone.          *)
LEMMA ReaderSteps ==
  ASSUME InOrder,
         \/ FromOldStruct \/ ConvertToUpperVersion \/ DeserializeStruct \/ DeserializeMember
         \/ DeserializeNumber \/ DeserializeArray \/ DeserializeElement \/ DeserializePointer
  PROVE  UNCHANGED <<pair, graph>> /\ phase' \in {"read", "idle"} /\ status' # "received"
<1>1. phase = "read" => status = "reading"
  BY DEF InOrder
<1>2. \A s : Abandon(s) /\ s # "received" => Going
  BY DEF Abandon, Stop, Going
<1>3. \A items : Continue(items) => Going
  BY DEF Continue, Going
<1>4. ASSUME NEW structs, TakeBytes(structs)
      PROVE  Going
  BY <1>2, <1>3, <1>4 DEF TakeBytes
<1>5. ASSUME NEW slot, NEW T, NewObject(slot, T)
      PROVE  Going
  <2>1. Continue(<<Latest(reader, T, <<made + 1>>)>>) \/ Abandon("no memory")
    BY <1>5 DEF NewObject
  <2> QED  BY <1>2, <1>3, <2>1
<1>6. ASSUME NEW slot, NEW offset, KnownObject(slot, offset)
      PROVE  Going
  BY <1>2, <1>3, <1>6 DEF KnownObject
<1>7. ASSUME phase = "read", Going
      PROVE  phase' \in {"read", "idle"} /\ status' # "received"
  BY <1>1, <1>7 DEF Going
<1>8. CASE FromOldStruct
  <2>1. UNCHANGED <<pair, graph>> /\ phase = "read"
        /\ ((\E items : Continue(items)) \/ Abandon("no memory"))
    BY <1>8 DEF FromOldStruct, Doing, writerVars
  <2> QED  BY <1>2, <1>3, <1>7, <2>1
<1>9. CASE ConvertToUpperVersion
  <2>1. UNCHANGED <<pair, graph>> /\ phase = "read"
        /\ (Continue(<<>>) \/ Abandon("no such handler") \/ Abandon("no memory"))
    BY <1>9 DEF ConvertToUpperVersion, Doing, writerVars
  <2> QED  BY <1>2, <1>3, <1>7, <2>1
<1>10. CASE DeserializeStruct
  <2>1. UNCHANGED <<pair, graph>> /\ phase = "read"
        /\ \/ Abandon("flags") \/ TakeBytes(<<Head(agenda)>>)
           \/ Continue(MembersOf(reader, Head(agenda)))
    BY <1>10 DEF DeserializeStruct, Doing, writerVars
  <2> QED  BY <1>2, <1>3, <1>4, <1>7, <2>1
<1>11. CASE DeserializeMember
  <2>1. UNCHANGED <<pair, graph>> /\ phase = "read" /\ Continue(<<SubStruct(reader, Head(agenda), 1)>>)
    BY <1>11 DEF DeserializeMember, Doing, writerVars
  <2> QED  BY <1>3, <1>7, <2>1
<1>12. CASE DeserializeNumber
  <2>1. UNCHANGED <<pair, graph>> /\ phase = "read" /\ (Continue(<<>>) \/ Abandon("garbled"))
    BY <1>12 DEF DeserializeNumber, Doing, writerVars
  <2> QED  BY <1>2, <1>3, <1>7, <2>1
<1>13. CASE DeserializeArray
  <2>1. UNCHANGED <<pair, graph>> /\ phase = "read"
        /\ ((\E structs : TakeBytes(structs)) \/ (\E items : Continue(items)))
    BY <1>13 DEF DeserializeArray, Doing, writerVars
  <2> QED  BY <1>3, <1>4, <1>7, <2>1
<1>14. CASE DeserializeElement
  <2>1. UNCHANGED <<pair, graph>> /\ phase = "read" /\ Continue(<<>>)
    BY <1>14 DEF DeserializeElement, Doing, writerVars
  <2> QED  BY <1>3, <1>7, <2>1
<1>15. CASE DeserializePointer
  <2>1. UNCHANGED <<pair, graph>> /\ phase = "read"
        /\ \/ Continue(<<>>) \/ (\E slot, T : NewObject(slot, T)) \/ (\E slot, n : KnownObject(slot, n))
           \/ Abandon("garbled") \/ Abandon("not supported")
    BY <1>15 DEF DeserializePointer, Doing, writerVars
  <2> QED  BY <1>2, <1>3, <1>5, <1>6, <1>7, <2>1
<1> QED  BY <1>8, <1>9, <1>10, <1>11, <1>12, <1>13, <1>14, <1>15

(* A step of the writer keeps it.                                          *)
LEMMA WriterKeepsSharing ==
  ASSUME PlainStructs, SharingInv, ReadingInv',
         \/ ToOldStruct \/ SerializeStruct \/ SerializeMember \/ SerializeNumber
         \/ SerializeArray \/ SerializeElement \/ SerializePointer \/ EndOfWriting
  PROVE  SharingInv'
<1>1. ReadingInv /\ InOrder
  BY DEF SharingInv, ReadingInv, BodyInv, Typed
<1>2. UNCHANGED <<pair, graph>> /\ phase' # "read" /\ status' # "received"
  BY <1>1, WriterSteps
<1>3. ASSUME NEW types, TypedBy(writer, graph, types), PlainGraph,
             WrittenAsTold(types), ReadAsTold(types)
      PROVE  WrittenAsTold(types)' /\ ReadAsTold(types)'
  <2>1. WrittenAsTold(types)'
    BY <1>1, <1>3, ToOldStructTells, SerializeStructTells, SerializeMemberTells,
       SerializeNumberTells,
       SerializeArrayTells, SerializeElementTells, SerializePointerTells, EndOfWritingTells
  <2>2. ReadAsTold(types)'
    BY <1>2 DEF ReadAsTold
  <2> QED  BY <2>1, <2>2
<1> QED  BY <1>2, <1>3, ToldOn

(* A step of the reader within a message keeps it.                         *)
LEMMA ReaderKeepsSharing ==
  ASSUME PlainStructs, OneHistory, SharingInv, ReadingInv',
         \/ FromOldStruct \/ ConvertToUpperVersion \/ DeserializeStruct \/ DeserializeMember
         \/ DeserializeNumber \/ DeserializeArray \/ DeserializeElement \/ DeserializePointer
  PROVE  SharingInv'
<1>1. ReadingInv /\ InOrder
  BY DEF SharingInv, ReadingInv, BodyInv, Typed
<1>2. UNCHANGED <<pair, graph>> /\ phase' \in {"read", "idle"} /\ status' # "received"
  BY <1>1, ReaderSteps
<1>3. ASSUME NEW types, TypedBy(writer, graph, types), PlainGraph,
             WrittenAsTold(types), ReadAsTold(types)
      PROVE  WrittenAsTold(types)' /\ ReadAsTold(types)'
  <2>1. ReadAsTold(types)'
    BY <1>1, <1>3, FromOldStructTells, ConvertToUpperVersionTells, DeserializeStructTells,
       DeserializeMemberTells, DeserializeNumberTells, DeserializeArrayTells,
       DeserializeElementTells, DeserializePointerTells
  <2>2. WrittenAsTold(types)'
    BY <1>2 DEF WrittenAsTold
  <2> QED  BY <2>1, <2>2
<1> QED  BY <1>2, <1>3, ToldOn

(* The start of a message keeps it.                                        *)
LEMMA SerializeKeepsSharing ==
  ASSUME SharingInv, ReadingInv', NEW g \in Graphs, Serialize(g)
  PROVE  SharingInv'
<1>1. ReadingInv
  BY DEF SharingInv
<1>2. status' # "received"
  BY DEF Serialize, Stop
<1>3. \A types : TypedBy(writer, graph, types)' => WrittenAsTold(types)' /\ ReadAsTold(types)'
  BY <1>1, SerializeTells
<1> QED  BY <1>2, <1>3 DEF SharingInv

(* The start of its reading keeps it.                                      *)
LEMMA DeserializeKeepsSharing ==
  ASSUME PlainStructs, OneHistory, SharingInv, ReadingInv', NEW added \in BOOLEAN, Deserialize(added)
  PROVE  SharingInv'
<1>1. ReadingInv
  BY DEF SharingInv
<1>2. UNCHANGED <<pair, graph>> /\ phase' \in {"read", "idle"} /\ status' # "received"
  <2>1. UNCHANGED <<pair, graph>>
    BY DEF Deserialize, writerVars
  <2>2. (phase' = "read" /\ status' = "reading") \/ Stop("refused")
    BY DEF Deserialize
  <2> QED  BY <2>1, <2>2 DEF Stop
<1>3. ASSUME NEW types, TypedBy(writer, graph, types), PlainGraph,
             WrittenAsTold(types), ReadAsTold(types)
      PROVE  WrittenAsTold(types)' /\ ReadAsTold(types)'
  <2>1. ReadAsTold(types)'
    BY <1>1, <1>3, DeserializeTells
  <2>2. WrittenAsTold(types)'
    BY <1>2 DEF WrittenAsTold
  <2> QED  BY <2>1, <2>2
<1> QED  BY <1>2, <1>3, ToldOn

(* The end of a message keeps it.                                          *)
LEMMA EndOfReadingKeepsSharing ==
  ASSUME PlainStructs, OneHistory, SharingInv, ReadingInv', EndOfReading
  PROVE  SharingInv'
<1>1. /\ phase = "read" /\ agenda = <<>> /\ phase' = "idle"
      /\ UNCHANGED <<pair, graph, sctx, memory>>
  BY DEF EndOfReading, writerVars, readerVars
<1>2. ASSUME PlainGraph'
      PROVE  \E types, origin, opened, c : Arrived(types, origin, opened, c)'
  <2>1. PlainGraph
    BY <1>1, <1>2, SameGraph
  <2>2. PICK types : TypedBy(writer, graph, types)
    BY <2>1 DEF PlainGraph
  <2>3. ReadAsTold(types) /\ ReadingInv
    BY <2>1, <2>2 DEF SharingInv
  <2>4. PICK origin, opened, c : Arrived(types, origin, opened, c)
    BY <1>1, <2>1, <2>2, <2>3, AllArrives
  <2>5. Arrived(types, origin, opened, c)'
    BY <1>1, <2>4, ArrivedStays
  <2> QED  BY <2>5
<1>3. \A types : WrittenAsTold(types)' /\ ReadAsTold(types)'
  BY <1>1, StopTells
<1> QED  BY <1>2, <1>3 DEF SharingInv

(* A step that changes nothing keeps it.                                   *)
LEMMA StutterKeepsSharing ==
  ASSUME SharingInv, ReadingInv', UNCHANGED vars
  PROVE  SharingInv'
<1>1. /\ UNCHANGED <<pair, phase, agenda, status, graph, sctx, out, pointersMap>>
      /\ UNCHANGED <<dctx, objectsMap, tell, memory, made, dead>>
  BY DEF vars, writerVars, readerVars
<1>2. /\ writer' = writer /\ reader' = reader /\ Seen' = Seen
      /\ \A types : Letter(types)' = Letter(types)
      /\ Passing' = Passing /\ Staying' = Staying
  BY <1>1 DEF writer, reader, Seen, Letter, Passing, Staying, Temporaries
<1>3. ASSUME NEW types, WrittenAsTold(types)
      PROVE  WrittenAsTold(types)'
  BY <1>1, <1>2, <1>3 DEF WrittenAsTold, ItemSends, StructSends, MemberSends, CanHold
<1>4. ASSUME NEW types, ReadAsTold(types)
      PROVE  ReadAsTold(types)'
  <2> SUFFICES ASSUME phase' = "read"
               PROVE  ReadAsTold(types)'
    BY DEF ReadAsTold
  <2>1. PICK origin, numbered, opened : ReaderKnows(types, origin, numbered, opened)
    BY <1>1, <1>4 DEF ReadAsTold
  <2>2. Origins(origin)' /\ InTheirTime'
    BY <1>1, <1>2, <2>1 DEF ReaderKnows, Origins, InTheirTime
  <2>3. Traces(Letter(types), out, Tracing(Places(origin, agenda), tell, numbered),
               Tracing(<<>>, Len(out), Seen))'
    BY <1>1, <1>2, <2>1 DEF ReaderKnows
  <2>4. \A p : Stands(types, origin, p)' <=> Stands(types, origin, p)
    BY <1>1, <1>2 DEF Stands, CanHold, TypeOf
  <2>5. \A p : IsTemporary(p)' <=> IsTemporary(p)
    BY <1>2 DEF IsTemporary
  <2>6. \A item \in Elements(agenda') : ItemReads(types, origin, item)'
    BY <1>1, <1>2, <2>1, <2>4, <2>5
       DEF ReaderKnows, ItemReads, StructReads, MemberReads, ConvertReads, TypeOf
  <2>7. MemoryAsTold(types, origin)'
    <3>1. \A slot, q, m, value : SlotIs(types, origin, slot, q, m, value) =>
                                   SlotIs(types, origin, slot, q, m, value)'
      BY <1>1, <1>2, <2>4, <2>5 DEF SlotIs, HoldsAsTold, TypeOf
    <3> QED  BY <1>1, <2>1, <3>1 DEF ReaderKnows, MemoryAsTold
  <2>8. AllIsThere(types, origin, opened)'
    <3>1. \A p : IsThere(opened, p)' <=> IsThere(opened, p)
      BY <1>1 DEF IsThere, StructComes
    <3>2. \A q, m : MemberIsThere(opened, q, m)' <=> MemberIsThere(opened, q, m)
      BY <1>1, <3>1 DEF MemberIsThere, MemberComes
    <3>3. \A q : IsOpened(types, origin, opened, q) => IsOpened(types, origin, opened, q)'
      BY <1>1, <1>2, <2>4, <3>2 DEF IsOpened, TypeOf
    <3> QED  BY <1>1, <1>2, <2>1, <3>1, <3>3 DEF ReaderKnows, AllIsThere
  <2>9. NumberedAsTold(origin, numbered)'
    BY <1>1, <1>2, <2>1 DEF ReaderKnows, NumberedAsTold
  <2> QED  BY <1>1, <2>2, <2>3, <2>6, <2>7, <2>8, <2>9 DEF ReaderKnows, ReadAsTold
<1>5. PlainGraph' <=> PlainGraph
  BY <1>1, SameGraph
<1>6. \A types : TypedBy(writer, graph, types)' <=> TypedBy(writer, graph, types)
  BY <1>1, SameGraph
<1>7. \A types, origin, opened, c : Arrived(types, origin, opened, c) => Arrived(types, origin, opened, c)'
  BY <1>1, ArrivedStays
<1> QED  BY <1>1, <1>3, <1>4, <1>5, <1>6, <1>7 DEF SharingInv

(* It holds at first.                                                      *)
LEMMA InitIsSharing ==
  ASSUME Init
  PROVE  SharingInv
<1>1. ReadingInv
  BY InitIsReading
<1>2. phase = "idle" /\ status = "none"
  BY DEF Init
<1> QED  BY <1>1, <1>2 DEF SharingInv, WrittenAsTold, ReadAsTold

(* Every step keeps it.                                                    *)
LEMMA NextKeepsSharing ==
  ASSUME PlainStructs, OneHistory, FlagsOfParts, ThreeVersions, SharingInv, [Next]_vars
  PROVE  SharingInv'
<1>1. ReadingInv'
  BY NextKeepsReading DEF SharingInv
<1>2. CASE UNCHANGED vars
  BY <1>1, <1>2, StutterKeepsSharing
<1>3. ASSUME NEW newWriter \in BOOLEAN, NEW clearReader \in BOOLEAN,
             NextMessage(newWriter, clearReader)
      PROVE  SharingInv'
  <2>1. phase' = "idle" /\ status' # "received"
    BY <1>3 DEF NextMessage, Forget
  <2> QED  BY <1>1, <2>1, ToldAgain
<1>4. ASSUME NEW call \in Calls, SetUp(call)
      PROVE  SharingInv'
  <2>1. status = "none" /\ status' = "ready" /\ UNCHANGED phase
    BY <1>4 DEF SetUp
  <2>2. phase = "idle"
    BY <2>1 DEF SharingInv, ReadingInv, BodyInv, Typed, TypeOK, InOrder
  <2> QED  BY <1>1, <2>1, <2>2, ToldAgain
<1>5. CASE WriterNext
  BY <1>1, <1>5, SerializeKeepsSharing, WriterKeepsSharing DEF WriterNext
<1>6. CASE ReaderNext
  BY <1>1, <1>6, DeserializeKeepsSharing, ReaderKeepsSharing, EndOfReadingKeepsSharing
     DEF ReaderNext
<1> QED  BY <1>2, <1>3, <1>4, <1>5, <1>6 DEF Next

(* What was received has arrived.                                          *)
LEMMA SharingIsReceived ==
  ASSUME SharingInv, PlainGraph
  PROVE  ReceivedAsSent /\ SharedStaysShared
<1>1. CASE status = "received"
  <2>1. HasArrived
    BY <1>1 DEF SharingInv, HasArrived, PlainGraph
  <2> QED  BY <2>1, ArrivedAsSent, ArrivedShared
<1>2. CASE status # "received"
  BY <1>2 DEF ReceivedAsSent, SharedStaysShared
<1> QED  BY <1>1, <1>2

(***************************************************************************)
(* The theorems are about two builds of one history, with structs whose    *)
(* parts keep their members, and about pointers that lead to objects other *)
(* than the root.  Whatever versions and flags the contexts have, and      *)
(* however the pointers of the writer share objects and lead back:         *)
(* every object that can be reached in the writer has become one that is   *)
(* reached in the same way in the reader, with its numbers and its null    *)
(* pointers, but for members that a version between the two lacked, which  *)
(* are 0 and null.  serialize and deserialize of BodyProcessor, and the    *)
(* conversions of VersionConverter, neither lose nor mix up a member.      *)
(***************************************************************************)
THEOREM MessagesAreReceivedAsSent ==
  ASSUME PlainStructs, OneHistory, FlagsOfParts, ThreeVersions
  PROVE  Spec => [](PlainGraph => ReceivedAsSent)
<1>1. Init => SharingInv
  BY InitIsSharing
<1>2. SharingInv /\ [Next]_vars => SharingInv'
  BY NextKeepsSharing
<1>3. SharingInv => (PlainGraph => ReceivedAsSent)
  BY SharingIsReceived
<1> QED  BY <1>1, <1>2, <1>3, PTL DEF Spec

(* With checkRecursivePointers, which numbers the objects of a message by  *)
(* addPointerToMap and getPointerFromMap, two pointers of the reader lead  *)
(* to one object exactly if those of the writer did.                       *)
THEOREM SharedObjectsStayShared ==
  ASSUME PlainStructs, OneHistory, FlagsOfParts, ThreeVersions
  PROVE  Spec => [](PlainGraph => SharedStaysShared)
<1>1. Init => SharingInv
  BY InitIsSharing
<1>2. SharingInv /\ [Next]_vars => SharingInv'
  BY NextKeepsSharing
<1>3. SharingInv => (PlainGraph => SharedStaysShared)
  BY SharingIsReceived
<1> QED  BY <1>1, <1>2, <1>3, PTL DEF Spec
=============================================================================

------------------------- MODULE BodyTellingProofs --------------------------
(***************************************************************************)
(* What the tokens of a message tell, for every build and every number of  *)
(* versions, structs and objects: places and tracings of the grammar of    *)
(* BodySharing; the versions a struct goes through on either side; that what*)
(* the writer wrote tells of its places one by one; and the reader's members,*)
(* numbers, structs and arrays, which it reads as they are told.           *)
(***************************************************************************)
EXTENDS BodySharing, BodyReadingProofs

(* The places of items.                                                    *)

Placed(origin, items) ==
  IsSequence(items) /\ \A x \in Elements(items) : IsSequence(ItemPlaces(origin, x))

(* The places of every item                                                *)
PlacesEach(origin, items) == [i \in 1..Len(items) |-> ItemPlaces(origin, items[i])]

(* The places of items are sequences, and so is what they give.            *)
LEMMA PlacesEachAre ==
  ASSUME NEW origin, NEW items, Placed(origin, items)
  PROVE  /\ Places(origin, items) = FlattenSeq(PlacesEach(origin, items))
         /\ Sequences(PlacesEach(origin, items)) /\ Len(PlacesEach(origin, items)) = Len(items)
         /\ IsSequence(Places(origin, items)) /\ Len(items) \in Nat
<1>1. Len(items) \in Nat /\ \A i \in 1..Len(items) : IsSequence(ItemPlaces(origin, items[i]))
  BY DEF Placed, IsSequence, Elements
<1>2. Len(PlacesEach(origin, items)) = Len(items)
      /\ \A i \in 1..Len(items) : PlacesEach(origin, items)[i] = ItemPlaces(origin, items[i])
  BY <1>1 DEF PlacesEach
<1>3. IsSequence(PlacesEach(origin, items))
  BY <1>1, <1>2 DEF IsSequence, PlacesEach
<1>4. Sequences(PlacesEach(origin, items))
  BY <1>1, <1>2, <1>3 DEF Sequences
<1>5. PICK F : Gather(PlacesEach(origin, items), F)
  BY <1>4, GatheringExists
<1>6. IsSequence(FlattenSeq(PlacesEach(origin, items)))
  <2>1. Len(items) \in 0..Len(items)
    BY <1>1
  <2> QED  BY <1>2, <1>4, <1>5, <2>1, Gathered
<1>7. Places(origin, items) = FlattenSeq(PlacesEach(origin, items))
  BY DEF Places, PlacesEach
<1> QED  BY <1>1, <1>2, <1>4, <1>6, <1>7

(* Items that come after others add their places.                          *)
LEMMA PlacesConcat ==
  ASSUME NEW origin, NEW s, NEW t, Placed(origin, s), Placed(origin, t)
  PROVE  /\ Placed(origin, s \o t)
         /\ Places(origin, s \o t) = Places(origin, s) \o Places(origin, t)
<1> DEFINE u == s \o t
           n == Len(s)
           x == PlacesEach(origin, s)
           y == PlacesEach(origin, t)
           z == PlacesEach(origin, u)
<1>1. /\ IsSequence(u) /\ Len(u) = n + Len(t) /\ n \in Nat /\ Len(t) \in Nat
      /\ \A i \in 1..Len(u) : u[i] = IF i <= n THEN s[i] ELSE t[i - n]
      /\ Elements(u) = Elements(s) \cup Elements(t)
  BY Concatenated DEF Placed, IsSequence
<1>2. Placed(origin, u)
  BY <1>1 DEF Placed
<1> HIDE DEF u
<1>3. /\ Sequences(x) /\ Len(x) = n /\ Sequences(y) /\ Len(y) = Len(t)
      /\ Sequences(z) /\ Len(z) = Len(u)
  BY <1>2, PlacesEachAre
<1>4. /\ \A i \in 1..n : x[i] = ItemPlaces(origin, s[i])
      /\ \A i \in 1..Len(t) : y[i] = ItemPlaces(origin, t[i])
      /\ \A i \in 1..Len(u) : z[i] = ItemPlaces(origin, u[i])
  BY DEF PlacesEach
<1> HIDE DEF x, y, z
<1>5. /\ IsSequence(x \o y) /\ Len(x \o y) = n + Len(t)
      /\ \A i \in 1..Len(x \o y) : (x \o y)[i] = IF i <= n THEN x[i] ELSE y[i - n]
  BY ONLY <1>3, Concatenated DEF Sequences
<1>6. ASSUME NEW i \in 1..Len(u)
      PROVE  z[i] = (x \o y)[i]
  <2>1. i \in 1..Len(x \o y)
    BY <1>1, <1>5
  <2>2. CASE i <= n
    <3>1. i \in 1..n
      BY <1>1, <2>2
    <3> QED  BY <1>1, <1>4, <1>5, <2>1, <2>2, <3>1
  <2>3. CASE ~(i <= n)
    <3>1. i - n \in 1..Len(t)
      BY <1>1, <2>3
    <3> QED  BY <1>1, <1>4, <1>5, <2>1, <2>3, <3>1
  <2> QED  BY <2>2, <2>3
<1>7. z = x \o y
  <2>1. z = [i \in 1..Len(u) |-> z[i]] /\ x \o y = [i \in 1..Len(u) |-> (x \o y)[i]]
    BY <1>1, <1>3, <1>5 DEF IsSequence, Sequences
  <2> QED  BY <1>6, <2>1
<1>8. FlattenSeq(z) = FlattenSeq(x) \o FlattenSeq(y)
  BY <1>3, <1>7, FlattenedConcat
<1>9. Places(origin, u) = FlattenSeq(z) /\ Places(origin, s) = FlattenSeq(x)
      /\ Places(origin, t) = FlattenSeq(y)
  BY <1>2, PlacesEachAre DEF x, y, z
<1> QED  BY <1>2, <1>8, <1>9 DEF u

(* The places of one item, and of none                                     *)
LEMMA PlacesOfOne ==
  ASSUME NEW origin, NEW x, IsSequence(ItemPlaces(origin, x))
  PROVE  /\ Placed(origin, <<x>>) /\ Places(origin, <<x>>) = ItemPlaces(origin, x)
         /\ Placed(origin, <<>>) /\ Places(origin, <<>>) = <<>>
<1>1. Placed(origin, <<x>>) /\ Placed(origin, <<>>)
  BY AgendaOfOne DEF Placed
<1>2. PlacesEach(origin, <<x>>) = <<ItemPlaces(origin, x)>> /\ PlacesEach(origin, <<>>) = <<>>
  BY DEF PlacesEach
<1>3. /\ Places(origin, <<x>>) = FlattenSeq(<<ItemPlaces(origin, x)>>)
      /\ Places(origin, <<>>) = FlattenSeq(<<>>)
  BY <1>1, <1>2, PlacesEachAre
<1> QED  BY <1>1, <1>3, FlattenedOne

(* The places of what comes first, and of the rest                         *)
LEMMA PlacesHead ==
  ASSUME NEW origin, NEW items, Placed(origin, items), items # <<>>
  PROVE  /\ Places(origin, items) = ItemPlaces(origin, Head(items)) \o Places(origin, Tail(items))
         /\ Placed(origin, Tail(items)) /\ IsSequence(ItemPlaces(origin, Head(items)))
<1>1. /\ IsSequence(Tail(items)) /\ Elements(Tail(items)) \subseteq Elements(items)
      /\ Head(items) \in Elements(items) /\ items = <<Head(items)>> \o Tail(items)
  BY TailElements DEF Placed
<1>2. Placed(origin, Tail(items)) /\ IsSequence(ItemPlaces(origin, Head(items)))
  BY <1>1 DEF Placed
<1>3. Placed(origin, <<Head(items)>>)
      /\ Places(origin, <<Head(items)>>) = ItemPlaces(origin, Head(items))
  BY <1>2, PlacesOfOne
<1>4. Places(origin, <<Head(items)>> \o Tail(items))
        = Places(origin, <<Head(items)>>) \o Places(origin, Tail(items))
  BY <1>2, <1>3, PlacesConcat
<1> QED  BY <1>1, <1>2, <1>3, <1>4

(* The places of sequences of items, one after another                     *)
LEMMA PlacesFlattened ==
  ASSUME NEW origin, NEW seqs, IsSequence(seqs),
         \A i \in 1..Len(seqs) : Placed(origin, seqs[i])
  PROVE  /\ Placed(origin, FlattenSeq(seqs))
         /\ Places(origin, FlattenSeq(seqs))
              = FlattenSeq([i \in 1..Len(seqs) |-> Places(origin, seqs[i])])
<1> DEFINE n == Len(seqs)
           lists == [i \in 1..n |-> Places(origin, seqs[i])]
<1>1. n \in Nat /\ Sequences(seqs)
  BY DEF Sequences, Placed, IsSequence
<1>2. PICK F : Gather(seqs, F)
  BY <1>1, GatheringExists
<1>3. F[0] = <<>> /\ \A i \in 1..n : F[i] = F[i - 1] \o seqs[i]
  BY <1>2 DEF Gather
<1>4. \A i \in 0..n : Placed(origin, F[i])
  <2> DEFINE M == {m \in Nat : m <= n => Placed(origin, F[m])}
  <2>1. 0 \in M
    BY <1>3, AgendaOfOne DEF Placed
  <2>2. ASSUME NEW m \in Nat, m \in M
        PROVE  m + 1 \in M
    <3> SUFFICES ASSUME m + 1 <= n
                 PROVE  Placed(origin, F[m + 1])
      OBVIOUS
    <3>1. m + 1 \in 1..n /\ (m + 1) - 1 = m /\ m <= n
      BY <1>1
    <3>2. F[m + 1] = F[m] \o seqs[m + 1]
      BY <1>3, <3>1
    <3>3. Placed(origin, F[m]) /\ Placed(origin, seqs[m + 1])
      BY <2>2, <3>1
    <3> QED  BY <3>2, <3>3, PlacesConcat
  <2> HIDE DEF M
  <2>3. \A m \in Nat : m \in M
    BY <2>1, <2>2, NumbersByInduction
  <2> QED  BY <1>1, <2>3 DEF M
<1>5. Len(lists) = n /\ IsSequence(lists) /\ Sequences(lists)
  <2>1. Len(lists) = n /\ IsSequence(lists)
    BY <1>1 DEF IsSequence
  <2>2. \A i \in 1..n : IsSequence(lists[i])
    BY PlacesEachAre
  <2> HIDE DEF lists
  <2> QED  BY <2>1, <2>2 DEF Sequences
<1> DEFINE K == [i \in 0..n |-> Places(origin, F[i])]
<1>6. K[0] = <<>> /\ K[n] = Places(origin, F[n])
  <2>1. Places(origin, <<>>) = <<>>
    <3>1. Places(origin, <<>>) = FlattenSeq(PlacesEach(origin, <<>>)) /\ PlacesEach(origin, <<>>) = <<>>
      BY DEF Places, PlacesEach
    <3> QED  BY <3>1 DEF FlattenSeq
  <2> QED  BY <1>1, <1>3, <2>1
<1>7. ASSUME NEW i \in 1..n
      PROVE  K[i] = K[i - 1] \o lists[i]
  <2>1. i \in 0..n /\ i - 1 \in 0..n
    BY <1>1
  <2>2. Placed(origin, F[i - 1]) /\ Placed(origin, seqs[i])
    BY <1>4, <2>1
  <2>3. Places(origin, F[i - 1] \o seqs[i]) = Places(origin, F[i - 1]) \o Places(origin, seqs[i])
    BY <2>2, PlacesConcat
  <2> QED  BY <1>3, <2>1, <2>3
<1> HIDE DEF K, lists
<1>8. FlattenSeq(lists) = K[n]
  <2>1. Gather(lists, K)
    BY <1>5, <1>6, <1>7 DEF Gather
  <2> QED  BY <1>5, <2>1, Gathered
<1>9. FlattenSeq(seqs) = F[n] /\ n \in 0..n
  BY <1>1, <1>2, Gathered
<1>10. lists = [i \in 1..Len(seqs) |-> Places(origin, seqs[i])]
  BY DEF lists
<1> QED  BY <1>4, <1>6, <1>8, <1>9, <1>10

(* The places of a member are a sequence.                                  *)
LEMMA MemberPlacesAre ==
  ASSUME NEW m, NEW from, m.kind \in MemberKinds, m.n \in Nat
  PROVE  IsSequence(MemberPlaces(m, from))
<1>1. CASE m.kind = "number"
  BY <1>1, AgendaOfOne DEF MemberPlaces
<1>2. CASE m.kind = "pointer"
  BY <1>2, AgendaOfOne DEF MemberPlaces
<1>3. CASE m.kind = "member"
  BY <1>3, AgendaOfOne DEF MemberPlaces
<1>4. CASE m.kind = "array"
  <2>1. MemberPlaces(m, from) = [j \in 1..m.n |-> StructAt(Part(from, m.name, j))]
    BY <1>4 DEF MemberPlaces
  <2> QED  BY <2>1 DEF IsSequence
<1> QED  BY <1>1, <1>2, <1>3, <1>4 DEF MemberKinds

(* The places of an item are a sequence.                                   *)
LEMMA ItemIsPlaced ==
  ASSUME NEW b, IsBuild(b), NEW ctx, NEW n, NEW item, IsItem(b, ctx, n, item), NEW origin
  PROVE  IsSequence(ItemPlaces(origin, item))
<1>1. CASE item.do = "struct"
  BY <1>1, AgendaOfOne DEF ItemPlaces, MemberKinds
<1>2. CASE item.do \in MemberKinds
  <2>1. item.do = item.member.kind /\ item.member \in MembersIn(b)
    BY <1>2, ItemIsMember DEF MemberInMessage
  <2>2. item.member.kind \in MemberKinds /\ item.member.n \in Nat
    BY <1>2, <2>1, MembersInAre DEF Members
  <2>3. ItemPlaces(origin, item) = MemberPlaces(item.member, Sent(origin, item.from))
    BY <1>2 DEF ItemPlaces, MemberKinds
  <2> QED  BY <2>2, <2>3, MemberPlacesAre
<1>3. CASE item.do # "struct" /\ item.do \notin MemberKinds
  <2>1. ItemPlaces(origin, item) = <<>>
    BY <1>3 DEF ItemPlaces
  <2> QED  BY <2>1, AgendaOfOne
<1> QED  BY <1>1, <1>2, <1>3

(* Items of an agenda have places.                                         *)
LEMMA ItemsArePlaced ==
  ASSUME NEW b, IsBuild(b), NEW ctx, NEW n, NEW items, IsSequence(items),
         \A x \in Elements(items) : IsItem(b, ctx, n, x), NEW origin
  PROVE  Placed(origin, items)
BY ItemIsPlaced DEF Placed

-----------------------------------------------------------------------------
(* Where places come from.                                                 *)

(* The head is the first.                                                  *)
LEMMA HeadIs ==
  ASSUME NEW s
  PROVE  Head(s) = s[1]
OBVIOUS

(* A part of a place is the place, and two more.                           *)
LEMMA PartIs ==
  ASSUME NEW p, IsPlace(p), NEW name, NEW j, NEW u, u = Part(p, name, j)
  PROVE  /\ Len(u) = Len(p) + 2 /\ Len(p) \in Nat /\ Len(p) >= 1 /\ IsSequence(p)
         /\ IsSequence(u)
         /\ \A i \in 1..Len(p) : u[i] = p[i]
         /\ u[Len(p) + 1] = name /\ u[Len(p) + 2] = j
<1>1. IsSequence(p) /\ Len(p) \in Nat /\ Len(p) >= 1
  BY TailElements DEF IsPlace, IsSequence
<1>2. PICK e : e = <<name, j>>
  OBVIOUS
<1>3. IsSequence(e) /\ Len(e) = 2 /\ e[1] = name /\ e[2] = j
  <2>1. e = [i \in 1..2 |-> e[i]] /\ Len(e) = 2 /\ e[1] = name /\ e[2] = j
    BY <1>2
  <2> QED  BY <2>1 DEF IsSequence
<1>4. u = p \o e
  BY <1>2 DEF Part
<1>5. /\ IsSequence(p \o e) /\ Len(p \o e) = Len(p) + Len(e)
      /\ \A i \in 1..Len(p \o e) : (p \o e)[i] = IF i <= Len(p) THEN p[i] ELSE e[i - Len(p)]
  BY <1>1, <1>3, Concatenated
<1>6. /\ Len(u) = Len(p) + 2 /\ IsSequence(u)
      /\ \A i \in 1..Len(u) : u[i] = IF i <= Len(p) THEN p[i] ELSE e[i - Len(p)]
  BY <1>3, <1>4, <1>5
<1>7. ASSUME NEW i \in 1..Len(p)
      PROVE  u[i] = p[i]
  <2>1. i \in 1..Len(u) /\ i <= Len(p)
    BY <1>1, <1>6
  <2> QED  BY <1>6, <2>1
<1>8. u[Len(p) + 1] = e[1] /\ u[Len(p) + 2] = e[2]
  <2>1. /\ Len(p) + 1 \in 1..Len(u) /\ ~(Len(p) + 1 <= Len(p)) /\ Len(p) + 1 - Len(p) = 1
        /\ Len(p) + 2 \in 1..Len(u) /\ ~(Len(p) + 2 <= Len(p)) /\ Len(p) + 2 - Len(p) = 2
    BY <1>1, <1>6
  <2> QED  BY <1>6, <2>1
<1> QED  BY <1>1, <1>3, <1>6, <1>7, <1>8

(* A part comes from the part of the place.                                *)
LEMMA SentPart ==
  ASSUME NEW origin, NEW p, IsPlace(p), IsPlace(origin[p[1]]), NEW name, NEW j
  PROVE  /\ Sent(origin, Part(p, name, j)) = Part(Sent(origin, p), name, j)
         /\ IsPlace(Sent(origin, p)) /\ Sent(origin, p)[1] = origin[p[1]][1]
         /\ Len(Sent(origin, p)) = Len(origin[p[1]]) + Len(p) - 1
<1>1. PICK o, t, e : o = origin[p[1]] /\ t = Tail(p) /\ e = <<name, j>>
  OBVIOUS
<1>2. IsSequence(o) /\ o # <<>> /\ Len(o) \in Nat /\ Len(o) >= 1
  <2>1. IsSequence(o) /\ o # <<>>
    BY <1>1 DEF IsPlace
  <2> QED  BY <2>1, TailElements DEF IsSequence
<1>3. IsSequence(t) /\ Len(t) = Len(p) - 1 /\ p = <<p[1]>> \o t /\ Len(p) >= 1 /\ Len(p) \in Nat
  BY <1>1, TailElements, HeadIs DEF IsPlace, IsSequence
<1>4. IsSequence(e) /\ IsSequence(<<p[1]>>)
  <2>1. e = [i \in 1..2 |-> e[i]] /\ Len(e) = 2
    BY <1>1
  <2> QED  BY <2>1, AgendaOfOne DEF IsSequence
<1>5. IsPlace(Part(p, name, j)) /\ Part(p, name, j)[1] = p[1]
  BY PartIsPlace
<1>6. Part(p, name, j) = <<p[1]>> \o (t \o e) /\ IsSequence(t \o e)
  <2>1. Part(p, name, j) = p \o e
    BY <1>1 DEF Part
  <2>2. (<<p[1]>> \o t) \o e = <<p[1]>> \o (t \o e)
    BY <1>3, <1>4, Associates
  <2> QED  BY <1>3, <1>4, <2>1, <2>2, Concatenated
<1>7. Sent(origin, Part(p, name, j)) = o \o (t \o e)
  <2>1. Tail(Part(p, name, j)) = t \o e
    BY <1>6, FirstOf
  <2> QED  BY <1>1, <1>5, <2>1 DEF Sent
<1>8. (o \o t) \o e = o \o (t \o e)
  <2>1. IsSequence(o) /\ IsSequence(t) /\ IsSequence(e)
    BY <1>2, <1>3, <1>4
  <2> QED  BY <2>1, Associates
<1>9. Sent(origin, p) = o \o t
  BY <1>1 DEF Sent
<1>10. Sent(origin, Part(p, name, j)) = Part(Sent(origin, p), name, j)
  BY <1>1, <1>7, <1>8, <1>9 DEF Part
<1>11. PICK s : s = o \o t
  OBVIOUS
<1>12. /\ IsSequence(s) /\ Len(s) = Len(o) + Len(t)
       /\ \A i \in 1..Len(s) : s[i] = IF i <= Len(o) THEN o[i] ELSE t[i - Len(o)]
  BY <1>2, <1>3, <1>11, Concatenated
<1>13. Len(s) >= 1 /\ 1 \in 1..Len(s) /\ 1 <= Len(o)
  BY <1>2, <1>3, <1>12
<1>14. s[1] = o[1] /\ s # <<>>
  BY <1>12, <1>13
<1>15. Len(s) = Len(o) + Len(p) - 1
  BY <1>2, <1>3, <1>12
<1> QED  BY <1>1, <1>9, <1>10, <1>11, <1>12, <1>14, <1>15 DEF IsPlace

(* An object comes from where it does.                                     *)
LEMMA SentObject ==
  ASSUME NEW origin, NEW k, IsPlace(origin[k])
  PROVE  Sent(origin, <<k>>) = origin[k]
<1>1. IsSequence(origin[k])
  BY DEF IsPlace
<1>2. Tail(<<k>>) = <<>> /\ <<k>>[1] = k
  OBVIOUS
<1> QED  BY <1>1, <1>2, NothingAdded DEF Sent

(* What the writer writes of its objects it writes of themselves.          *)
LEMMA SentItself ==
  ASSUME NEW p, IsPlace(p), p[1] \in Objects
  PROVE  Sent(Itself, p) = p /\ IsPlace(Itself[p[1]])
<1>1. Itself[p[1]] = <<p[1]>>
  BY DEF Itself
<1>2. p = <<Head(p)>> \o Tail(p) /\ Head(p) = p[1]
  BY TailElements, HeadIs DEF IsPlace
<1> QED  BY <1>1, <1>2, ObjectIsPlace DEF Sent

(* Parts of places are the same only if the places and the names are.      *)
LEMMA PartsDiffer ==
  ASSUME NEW p, IsPlace(p), NEW q, IsPlace(q), NEW name, NEW other, NEW j, NEW k,
         Part(p, name, j) = Part(q, other, k)
  PROVE  p = q /\ name = other /\ j = k
<1>1. PICK u : u = Part(p, name, j) /\ u = Part(q, other, k)
  OBVIOUS
<1>2. /\ Len(u) = Len(p) + 2 /\ Len(p) \in Nat /\ IsSequence(p)
      /\ \A i \in 1..Len(p) : u[i] = p[i]
      /\ u[Len(p) + 1] = name /\ u[Len(p) + 2] = j
  BY <1>1, PartIs
<1>3. /\ Len(u) = Len(q) + 2 /\ Len(q) \in Nat /\ IsSequence(q)
      /\ \A i \in 1..Len(q) : u[i] = q[i]
      /\ u[Len(q) + 1] = other /\ u[Len(q) + 2] = k
  BY <1>1, PartIs
<1>4. Len(p) = Len(q)
  BY <1>2, <1>3
<1> QED  BY <1>2, <1>3, <1>4 DEF IsSequence

-----------------------------------------------------------------------------
(* What tokens tell, and where a tracing goes from there.                  *)

FacingWith(x, s, rest, at, numbered) == Facing(x, s, rest, at) /\ x.numbered = numbered

(* A tracing faces the first of its symbols.                               *)
LEMMA TracingFaces ==
  ASSUME NEW s, NEW rest, NEW at, NEW numbered, IsSequence(rest)
  PROVE  FacingWith(Tracing(First(s, rest), at, numbered), s, rest, at, numbered)
<1>1. /\ Head(First(s, rest)) = s /\ Tail(First(s, rest)) = rest /\ First(s, rest) # <<>>
  BY FirstOf DEF First
<1> QED  BY <1>1 DEF FacingWith, Facing, Tracing

(* A number tells of a member of the writer's.                             *)
LEMMA NumberTells ==
  ASSUME NEW letter, NEW tokens, NEW rest, NEW x, NEW at, NEW numbered, NEW from, NEW name,
         FacingWith(x, NumberAt(from, name), rest, at, numbered)
  PROVE  /\ Tells(letter, tokens, x) <=>
              /\ at \in 0..(Len(tokens) - 1) /\ tokens[at + 1][1] = "number"
              /\ tokens[at + 1][2] = NumberSent(letter, from, name)
         /\ Traced(letter, tokens, x) = Tracing(rest, at + 1, numbered)
<1>1. /\ Head(x.todo) = NumberAt(from, name) /\ Tail(x.todo) = rest
      /\ x.at = at /\ x.numbered = numbered
  BY DEF FacingWith, Facing
<1>2. /\ NumberAt(from, name).do = "number" /\ NumberAt(from, name).from = from
      /\ NumberAt(from, name).name = name
  BY DEF NumberAt
<1> QED  BY <1>1, <1>2 DEF Tells, Traced

(* A prefix tells of what a pointer leads to.                              *)
LEMMA PointerTells ==
  ASSUME NEW letter, NEW tokens, NEW rest, NEW x, NEW at, NEW numbered, NEW from, NEW name,
         FacingWith(x, PointerAt(from, name), rest, at, numbered)
  PROVE  Tells(letter, tokens, x) <=>
           /\ at \in 0..(Len(tokens) - 1) /\ tokens[at + 1][1] = Prefix(letter.ctx)
           /\ TellsOf(letter, numbered, tokens[at + 1][2], PointerSent(letter, from, name))
<1>1. Head(x.todo) = PointerAt(from, name) /\ x.at = at /\ x.numbered = numbered
  BY DEF FacingWith, Facing
<1>2. /\ PointerAt(from, name).do = "pointer" /\ PointerAt(from, name).from = from
      /\ PointerAt(from, name).name = name
  BY DEF PointerAt
<1> QED  BY <1>1, <1>2 DEF Tells

(* A new object follows its prefix, and is numbered if that is asked for.  *)
LEMMA TracedKnown ==
  ASSUME NEW letter, NEW tokens, NEW rest, NEW x, NEW at, NEW numbered, NEW from, NEW name,
         FacingWith(x, PointerAt(from, name), rest, at, numbered), tokens[at + 1][2] # 1
  PROVE  Traced(letter, tokens, x) = Tracing(rest, at + 1, numbered)
<1>1. /\ Head(x.todo) = PointerAt(from, name) /\ Tail(x.todo) = rest
      /\ x.at = at /\ x.numbered = numbered
  BY DEF FacingWith, Facing
<1>2. /\ PointerAt(from, name).do = "pointer" /\ PointerAt(from, name).from = from
      /\ PointerAt(from, name).name = name
  BY DEF PointerAt
<1>3. numbered \cup {} = numbered
  OBVIOUS
<1> QED  BY <1>1, <1>2, <1>3 DEF Traced

(* The objects that have been met, if the one at an offset is now          *)
NumberedNow(letter, numbered, offset, p) ==
  IF IsRecursive(letter) THEN numbered \cup {<<offset, p>>} ELSE numbered

(* Behind a prefix 1 the object follows, which has that offset.            *)
LEMMA TracedNew ==
  ASSUME NEW letter, NEW tokens, NEW rest, NEW x, NEW at, NEW numbered, NEW from, NEW name,
         FacingWith(x, PointerAt(from, name), rest, at, numbered),
         NEW p, p = PointerSent(letter, from, name), tokens[at + 1][2] = 1
  PROVE  Traced(letter, tokens, x)
           = Tracing(First(StructAt(p), rest), at + 1, NumberedNow(letter, numbered, at + 1, p))
<1>1. /\ Head(x.todo) = PointerAt(from, name) /\ Tail(x.todo) = rest
      /\ x.at = at /\ x.numbered = numbered
  BY DEF FacingWith, Facing
<1>2. /\ PointerAt(from, name).do = "pointer" /\ PointerAt(from, name).from = from
      /\ PointerAt(from, name).name = name
  BY DEF PointerAt
<1>3. Traced(letter, tokens, x)
        = Tracing(<<StructAt(p)>> \o rest, at + 1,
                  numbered \cup IF IsRecursive(letter) THEN {<<at + 1, p>>} ELSE {})
  BY <1>1, <1>2 DEF Traced
<1>4. numbered \cup (IF IsRecursive(letter) THEN {<<at + 1, p>>} ELSE {})
        = NumberedNow(letter, numbered, at + 1, p)
  BY DEF NumberedNow
<1> QED  BY <1>3, <1>4 DEF First

(* The token at i holds the numbers of the struct at a place.              *)
BytesTellOf(letter, tokens, from, i) ==
  /\ i \in 1..Len(tokens) /\ tokens[i][1] = "bytes"
  /\ \A name \in DOMAIN tokens[i][2] : tokens[i][2][name] = NumberSent(letter, from, name)

(* A struct at a place goes into the message as bytes.                     *)
GoesAsBytes(letter, from) == SimplyAssigned(LayoutAt(letter, from), letter.ctx)

(* Bytes tell of the members of a struct.                                  *)
LEMMA BytesTell ==
  ASSUME NEW letter, NEW tokens, NEW rest, NEW x, NEW at \in Nat, NEW numbered, NEW from,
         FacingWith(x, StructAt(from), rest, at, numbered), GoesAsBytes(letter, from)
  PROVE  /\ Tells(letter, tokens, x) <=> BytesTellOf(letter, tokens, from, at + 1)
         /\ Traced(letter, tokens, x) = Tracing(rest, at + 1, numbered)
<1>1. /\ Head(x.todo) = StructAt(from) /\ Tail(x.todo) = rest
      /\ x.at = at /\ x.numbered = numbered
  BY DEF FacingWith, Facing
<1>2. StructAt(from).do = "struct" /\ StructAt(from).from = from
  BY DEF StructAt
<1>3. SimplyAssigned(LayoutAt(letter, from), letter.ctx)
  BY DEF GoesAsBytes
<1>4. at \in 0..(Len(tokens) - 1) <=> at + 1 \in 1..Len(tokens)
  OBVIOUS
<1>5. Tells(letter, tokens, x) <=>
        /\ at \in 0..(Len(tokens) - 1) /\ tokens[at + 1][1] = "bytes"
        /\ \A name \in DOMAIN tokens[at + 1][2] :
             tokens[at + 1][2][name] = NumberSent(letter, from, name)
  BY <1>1, <1>2, <1>3 DEF Tells
<1>6. Traced(letter, tokens, x) = Tracing(rest, at + 1, numbered)
  BY <1>1, <1>2, <1>3 DEF Traced
<1> QED  BY <1>4, <1>5, <1>6 DEF BytesTellOf

(* A struct that does not go as bytes goes member by member.               *)
LEMMA MembersTell ==
  ASSUME NEW letter, NEW tokens, NEW rest, NEW x, NEW at, NEW numbered, NEW from,
         FacingWith(x, StructAt(from), rest, at, numbered), ~GoesAsBytes(letter, from)
  PROVE  /\ Tells(letter, tokens, x)
         /\ Traced(letter, tokens, x) = Tracing(PlacesAt(letter, from) \o rest, at, numbered)
<1>1. /\ Head(x.todo) = StructAt(from) /\ Tail(x.todo) = rest
      /\ x.at = at /\ x.numbered = numbered
  BY DEF FacingWith, Facing
<1>2. StructAt(from).do = "struct" /\ StructAt(from).from = from
  BY DEF StructAt
<1>3. ~SimplyAssigned(LayoutAt(letter, from), letter.ctx)
  BY DEF GoesAsBytes
<1> QED  BY <1>1, <1>2, <1>3 DEF Tells, Traced

-----------------------------------------------------------------------------
(* Tracings lead from one to the next.                                     *)

(* A tracing leads on as the tokens tell.                                  *)
LEMMA TracesOn ==
  ASSUME NEW letter, NEW tokens, NEW x, NEW y, Traces(letter, tokens, x, y),
         y.todo # <<>>, Tells(letter, tokens, y)
  PROVE  Traces(letter, tokens, x, Traced(letter, tokens, y))
BY DEF Traces, Followed

(* It leads to where it is.                                                *)
LEMMA TracesHere ==
  ASSUME NEW letter, NEW tokens, NEW x
  PROVE  Traces(letter, tokens, x, x)
BY DEF Traces

(* A tracing that leads to another is told what comes next.                *)
LEMMA MustTell ==
  ASSUME NEW letter, NEW tokens, NEW x, NEW y, Traces(letter, tokens, x, y),
         x # y, x.todo # <<>>
  PROVE  /\ Tells(letter, tokens, x)
         /\ Traces(letter, tokens, Traced(letter, tokens, x), y)
<1>1. Tells(letter, tokens, x)
  <2> SUFFICES ASSUME ~Tells(letter, tokens, x)
               PROVE  FALSE
    OBVIOUS
  <2>1. Followed(letter, tokens, {x})
    BY DEF Followed
  <2>2. y \in {x}
    BY <2>1 DEF Traces
  <2> QED  BY <2>2
<1>2. ASSUME NEW R, Traced(letter, tokens, x) \in R, Followed(letter, tokens, R)
      PROVE  y \in R
  <2>1. Followed(letter, tokens, R \cup {x})
    BY <1>2 DEF Followed
  <2>2. y \in R \cup {x}
    BY <2>1 DEF Traces
  <2> QED  BY <2>2
<1> QED  BY <1>1, <1>2 DEF Traces

(* What is written later does not change what was told.                    *)
LEMMA TracesKept ==
  ASSUME NEW letter, NEW tokens, NEW more, IsSequence(tokens), IsSequence(more),
         NEW x, NEW y, Traces(letter, tokens, x, y)
  PROVE  Traces(letter, tokens \o more, x, y)
<1>1. PICK all : all = tokens \o more
  OBVIOUS
<1>2. /\ Len(all) = Len(tokens) + Len(more) /\ Len(tokens) \in Nat /\ Len(more) \in Nat
      /\ \A i \in 1..Len(all) :
             all[i] = IF i <= Len(tokens) THEN tokens[i] ELSE more[i - Len(tokens)]
  BY <1>1, Concatenated DEF IsSequence
<1>3. ASSUME NEW i \in 0..(Len(tokens) - 1)
      PROVE  i \in 0..(Len(all) - 1) /\ all[i + 1] = tokens[i + 1]
  <2>1. i + 1 \in 1..Len(all) /\ i + 1 <= Len(tokens) /\ i \in 0..(Len(all) - 1)
    BY <1>2
  <2> QED  BY <1>2, <2>1
<1>4. ASSUME NEW z, Tells(letter, tokens, z)
      PROVE  Tells(letter, all, z) /\ Traced(letter, all, z) = Traced(letter, tokens, z)
  <2>1. PICK next : next = Head(z.todo)
    OBVIOUS
  <2>2. CASE next.do = "number"
    <3>1. /\ z.at \in 0..(Len(tokens) - 1) /\ tokens[z.at + 1][1] = "number"
          /\ tokens[z.at + 1][2] = NumberSent(letter, next.from, next.name)
      BY <1>4, <2>1, <2>2 DEF Tells
    <3>2. Tells(letter, all, z)
      BY <1>3, <2>1, <2>2, <3>1 DEF Tells
    <3>3. Traced(letter, all, z) = Traced(letter, tokens, z)
      BY <2>1, <2>2 DEF Traced
    <3> QED  BY <3>2, <3>3
  <2>3. CASE next.do = "pointer"
    <3>1. /\ z.at \in 0..(Len(tokens) - 1) /\ tokens[z.at + 1][1] = Prefix(letter.ctx)
          /\ TellsOf(letter, z.numbered, tokens[z.at + 1][2],
                     PointerSent(letter, next.from, next.name))
      BY <1>4, <2>1, <2>3 DEF Tells
    <3>2. Tells(letter, all, z)
      BY <1>3, <2>1, <2>3, <3>1 DEF Tells
    <3>3. Traced(letter, all, z) = Traced(letter, tokens, z)
      BY <1>3, <2>1, <2>3, <3>1 DEF Traced
    <3> QED  BY <3>2, <3>3
  <2>4. CASE next.do # "number" /\ next.do # "pointer"
    <3>1. SimplyAssigned(LayoutAt(letter, next.from), letter.ctx) =>
            /\ z.at \in 0..(Len(tokens) - 1) /\ tokens[z.at + 1][1] = "bytes"
            /\ \A name \in DOMAIN tokens[z.at + 1][2] :
                 tokens[z.at + 1][2][name] = NumberSent(letter, next.from, name)
      BY <1>4, <2>1, <2>4 DEF Tells
    <3>2. Tells(letter, all, z)
      BY <1>3, <2>1, <2>4, <3>1 DEF Tells
    <3>3. Traced(letter, all, z) = Traced(letter, tokens, z)
      BY <2>1, <2>4 DEF Traced
    <3> QED  BY <3>2, <3>3
  <2> QED  BY <2>2, <2>3, <2>4
<1>5. ASSUME NEW R, x \in R, Followed(letter, all, R)
      PROVE  y \in R
  <2>1. Followed(letter, tokens, R)
    BY <1>4, <1>5 DEF Followed
  <2> QED  BY <1>5, <2>1 DEF Traces
<1> QED  BY <1>1, <1>5 DEF Traces

(* The elements of an array that come after the first k                    *)
Row(from, name, k, n, rest) ==
  [j \in 1..(n - k) |-> StructAt(Part(from, name, k + j))] \o rest

(* The first of them, and the others                                       *)
LEMMA RowIs ==
  ASSUME NEW from, NEW name, NEW n \in Nat, NEW k \in Nat, k < n, NEW rest, IsSequence(rest)
  PROVE  /\ IsSequence(Row(from, name, k + 1, n, rest))
         /\ Row(from, name, k, n, rest)
              = First(StructAt(Part(from, name, k + 1)), Row(from, name, k + 1, n, rest))
<1> DEFINE e(i) == StructAt(Part(from, name, i))
<1>1. PICK c, d, f : /\ c = [j \in 1..(n - (k + 1)) |-> e((k + 1) + j)]
                     /\ d = [j \in 1..(n - k) |-> e(k + j)] /\ f = <<e(k + 1)>>
  OBVIOUS
<1> HIDE DEF e
<1>2. /\ IsSequence(c) /\ Len(c) = n - (k + 1)
      /\ \A j \in 1..(n - (k + 1)) : c[j] = e((k + 1) + j)
  BY <1>1 DEF IsSequence
<1>3. /\ IsSequence(d) /\ Len(d) = n - k /\ \A j \in 1..(n - k) : d[j] = e(k + j)
  BY <1>1 DEF IsSequence
<1>4. IsSequence(f) /\ Len(f) = 1 /\ f[1] = e(k + 1)
  BY <1>1, AgendaOfOne
<1>5. f \o c = d
  <2>1. PICK u : u = f \o c
    OBVIOUS
  <2>2. /\ IsSequence(u) /\ Len(u) = Len(f) + Len(c)
        /\ \A i \in 1..Len(u) : u[i] = IF i <= Len(f) THEN f[i] ELSE c[i - Len(f)]
    <3>1. IsSequence(f) /\ IsSequence(c)
      BY <1>2, <1>4
    <3> QED  BY <2>1, <3>1, Concatenated
  <2>3. Len(u) = n - k
    BY <1>2, <1>4, <2>2
  <2>4. ASSUME NEW i \in 1..(n - k)
        PROVE  u[i] = d[i]
    <3>1. CASE i = 1
      BY <1>3, <1>4, <2>2, <2>3, <3>1
    <3>2. CASE i # 1
      <4>1. i - 1 \in 1..(n - (k + 1)) /\ ~(i <= 1) /\ i \in 1..Len(u) /\ (k + 1) + (i - 1) = k + i
        BY <2>3, <3>2
      <4>2. u[i] = c[i - 1]
        BY <1>4, <2>2, <4>1
      <4>3. c[i - 1] = e((k + 1) + (i - 1))
        BY <1>2, <4>1
      <4> QED  BY <1>3, <4>1, <4>2, <4>3
    <3> QED  BY <3>1, <3>2
  <2> QED  BY <1>3, <2>1, <2>2, <2>3, <2>4 DEF IsSequence
<1>6. IsSequence(c \o rest) /\ (f \o c) \o rest = f \o (c \o rest)
  <2>1. IsSequence(f) /\ IsSequence(c)
    BY <1>2, <1>4
  <2> QED  BY <2>1, Concatenated, Associates
<1> QED  BY <1>1, <1>5, <1>6 DEF Row, First, e

(* After all of them comes the rest.                                       *)
LEMMA RowEnds ==
  ASSUME NEW from, NEW name, NEW n \in Nat, NEW rest, IsSequence(rest)
  PROVE  Row(from, name, n, n, rest) = rest
<1>1. [j \in 1..(n - n) |-> StructAt(Part(from, name, n + j))] = <<>>
  OBVIOUS
<1> QED  BY <1>1, NothingAdded DEF Row

(* After none of them come all.                                            *)
LEMMA RowStarts ==
  ASSUME NEW from, NEW name, NEW n \in Nat, NEW rest
  PROVE  Row(from, name, 0, n, rest) = [j \in 1..n |-> StructAt(Part(from, name, j))] \o rest
<1>1. n - 0 = n /\ \A j \in 1..n : 0 + j = j
  OBVIOUS
<1>2. [j \in 1..(n - 0) |-> StructAt(Part(from, name, 0 + j))]
        = [j \in 1..n |-> StructAt(Part(from, name, j))]
  BY <1>1
<1> QED  BY <1>2 DEF Row

(* A tracing goes on over the bytes of an array.                           *)
LEMMA TracesOverArray ==
  ASSUME NEW letter, NEW tokens, NEW from, NEW name, NEW rest, NEW n \in Nat, NEW at \in Nat,
         NEW numbered, NEW x, IsSequence(rest),
         \A j \in 1..n : /\ GoesAsBytes(letter, Part(from, name, j))
                         /\ BytesTellOf(letter, tokens, Part(from, name, j), at + j),
         Traces(letter, tokens, x, Tracing(Row(from, name, 0, n, rest), at, numbered))
  PROVE  Traces(letter, tokens, x, Tracing(rest, at + n, numbered))
<1> DEFINE y(k) == Tracing(Row(from, name, k, n, rest), at + k, numbered)
           M == {k \in Nat : k <= n => Traces(letter, tokens, x, y(k))}
<1>1. 0 \in M
  <2>1. at + 0 = at
    OBVIOUS
  <2> QED  BY <2>1
<1>2. ASSUME NEW k \in Nat, k \in M
      PROVE  k + 1 \in M
  <2> SUFFICES ASSUME k + 1 <= n
               PROVE  Traces(letter, tokens, x, y(k + 1))
    OBVIOUS
  <2>1. PICK p, todo, place : /\ p = at + k /\ todo = Row(from, name, k + 1, n, rest)
                              /\ place = Part(from, name, k + 1)
    OBVIOUS
  <2>2. k < n /\ k + 1 \in 1..n /\ p \in Nat /\ p + 1 = at + (k + 1)
    BY <2>1
  <2>3. IsSequence(todo) /\ Row(from, name, k, n, rest) = First(StructAt(place), todo)
    BY <2>1, <2>2, RowIs
  <2>4. y(k) = Tracing(First(StructAt(place), todo), p, numbered)
        /\ y(k + 1) = Tracing(todo, p + 1, numbered)
    BY <2>1, <2>2, <2>3
  <2>5. GoesAsBytes(letter, place) /\ BytesTellOf(letter, tokens, place, p + 1)
    BY <2>1, <2>2
  <2>6. Traces(letter, tokens, x, y(k))
    BY <1>2, <2>2
  <2> HIDE DEF y
  <2>7. FacingWith(y(k), StructAt(place), todo, p, numbered)
    BY <2>3, <2>4, TracingFaces
  <2>8. /\ y(k).todo # <<>> /\ Tells(letter, tokens, y(k))
        /\ Traced(letter, tokens, y(k)) = y(k + 1)
    <3>1. y(k).todo # <<>>
      BY <2>7 DEF FacingWith, Facing
    <3>2. /\ Tells(letter, tokens, y(k)) <=> BytesTellOf(letter, tokens, place, p + 1)
          /\ Traced(letter, tokens, y(k)) = Tracing(todo, p + 1, numbered)
      BY <2>2, <2>5, <2>7, BytesTell
    <3> QED  BY <2>4, <2>5, <3>1, <3>2
  <2> QED  BY <2>6, <2>8, TracesOn
<1> HIDE DEF M
<1>3. \A k \in Nat : k \in M
  BY <1>1, <1>2, NumbersByInduction
<1>4. Traces(letter, tokens, x, y(n))
  BY <1>3 DEF M
<1>5. y(n) = Tracing(rest, at + n, numbered)
  <2>1. Row(from, name, n, n, rest) = rest
    BY RowEnds
  <2> QED  BY <2>1
<1> QED  BY <1>4, <1>5

(* A tracing that comes to its end is told the bytes of an array.          *)
LEMMA MustTellArray ==
  ASSUME NEW letter, NEW tokens, NEW from, NEW name, NEW rest, NEW n \in Nat, NEW at \in Nat,
         NEW numbered, NEW x, IsSequence(rest), x.todo = <<>>,
         \A j \in 1..n : GoesAsBytes(letter, Part(from, name, j)),
         Traces(letter, tokens, Tracing(Row(from, name, 0, n, rest), at, numbered), x)
  PROVE  /\ \A j \in 1..n : BytesTellOf(letter, tokens, Part(from, name, j), at + j)
         /\ Traces(letter, tokens, Tracing(rest, at + n, numbered), x)
<1> DEFINE y(k) == Tracing(Row(from, name, k, n, rest), at + k, numbered)
           told(j) == BytesTellOf(letter, tokens, Part(from, name, j), at + j)
           M == {k \in Nat : k <= n =>
                   /\ \A j \in 1..k : told(j)
                   /\ Traces(letter, tokens, y(k), x)}
<1>1. 0 \in M
  <2>1. at + 0 = at /\ 1..0 = {}
    OBVIOUS
  <2> QED  BY <2>1
<1>2. ASSUME NEW k \in Nat, k \in M
      PROVE  k + 1 \in M
  <2> SUFFICES ASSUME k + 1 <= n
               PROVE  (\A j \in 1..(k + 1) : told(j)) /\ Traces(letter, tokens, y(k + 1), x)
    OBVIOUS
  <2>1. PICK p, todo, place : /\ p = at + k /\ todo = Row(from, name, k + 1, n, rest)
                              /\ place = Part(from, name, k + 1)
    OBVIOUS
  <2>2. k < n /\ k + 1 \in 1..n /\ p \in Nat /\ p + 1 = at + (k + 1)
    BY <2>1
  <2>3. IsSequence(todo) /\ Row(from, name, k, n, rest) = First(StructAt(place), todo)
    BY <2>1, <2>2, RowIs
  <2>4. y(k) = Tracing(First(StructAt(place), todo), p, numbered)
        /\ y(k + 1) = Tracing(todo, p + 1, numbered)
    BY <2>1, <2>2, <2>3
  <2>5. GoesAsBytes(letter, place)
    BY <2>1, <2>2
  <2>6. Traces(letter, tokens, y(k), x) /\ \A j \in 1..k : told(j)
    BY <1>2, <2>2
  <2>7. told(k + 1) <=> BytesTellOf(letter, tokens, place, p + 1)
    BY <2>1, <2>2
  <2> HIDE DEF y, told
  <2>8. FacingWith(y(k), StructAt(place), todo, p, numbered)
    BY <2>3, <2>4, TracingFaces
  <2>9. y(k).todo # <<>> /\ y(k) # x
    BY <2>8 DEF FacingWith, Facing
  <2>10. Tells(letter, tokens, y(k)) /\ Traces(letter, tokens, Traced(letter, tokens, y(k)), x)
    BY <2>6, <2>9, MustTell
  <2>11. /\ Tells(letter, tokens, y(k)) <=> BytesTellOf(letter, tokens, place, p + 1)
         /\ Traced(letter, tokens, y(k)) = Tracing(todo, p + 1, numbered)
    BY <2>2, <2>5, <2>8, BytesTell
  <2>12. told(k + 1) /\ Traces(letter, tokens, y(k + 1), x)
    BY <2>4, <2>7, <2>10, <2>11
  <2>13. \A j \in 1..(k + 1) : j \in 1..k \/ j = k + 1
    OBVIOUS
  <2> QED  BY <2>6, <2>12, <2>13
<1> HIDE DEF M
<1>3. \A k \in Nat : k \in M
  BY <1>1, <1>2, NumbersByInduction
<1>4. Traces(letter, tokens, y(n), x) /\ \A j \in 1..n : told(j)
  BY <1>3 DEF M
<1>5. y(n) = Tracing(rest, at + n, numbered)
  <2>1. Row(from, name, n, n, rest) = rest
    BY RowEnds
  <2> QED  BY <2>1
<1> QED  BY <1>4, <1>5

-----------------------------------------------------------------------------
(* The versions of plain structs.                                          *)

(* Both sides are such builds.                                             *)
LEMMA SidesArePlain ==
  ASSUME PlainStructs, ReadingInv
  PROVE  /\ phase \in {"write", "written", "read"} => Plain(writer, sctx.version)
         /\ phase = "read" => Plain(reader, sctx.version)
<1>1. BodyInv /\ Typed /\ TypeOK /\ ContextsAgree /\ pair \in Pairs /\ sctx.version \in Nat
  BY DEF ReadingInv, BodyInv, Typed, TypeOK, Contexts
<1>2. IsBuild(writer) /\ IsBuild(reader)
  BY <1>1, SidesAreBuilds
<1>3. ASSUME NEW side \in {1, 2}, NEW b, b = Builds[pair[side]], IsBuild(b),
             sctx.version <= b.interface
      PROVE  Plain(b, sctx.version)
  <2>1. b.interface \in Nat
    BY <1>3 DEF IsBuild
  <2>2. sctx.version \in 0..b.interface
    BY <1>1, <1>3, <2>1
  <2> QED  BY <1>1, <1>3, <2>2 DEF PlainStructs, Plain
<1>4. phase \in {"write", "written", "read"} => sctx.version <= writer.interface
  BY <1>1 DEF ContextsAgree
<1>5. phase = "read" => sctx.version <= reader.interface
  BY <1>1 DEF ContextsAgree
<1>6. writer = Builds[pair[1]] /\ reader = Builds[pair[2]]
  BY DEF writer, reader
<1> QED  BY <1>2, <1>3, <1>4, <1>5, <1>6

(* The version that a struct has in the message                            *)
LEMMA VersionAtIs ==
  ASSUME NEW b, NEW c, Plain(b, c), NEW T, Fits(b, T, c), NEW V, V = VersionAt(b, T, c)
  PROVE  /\ V \in ToSet(b.private[T]) /\ V \in Nat /\ V <= c
         /\ \A p \in ToSet(b.private[T]) : p <= c => p <= V
         /\ getBestCompatInterfaceVersion(b, T, V, c) = V
         /\ getLatestPrivateVersion(b, T) \in ToSet(b.private[T])
         /\ \A p \in ToSet(b.private[T]) : p \in Nat /\ p <= getLatestPrivateVersion(b, T)
<1>1. PICK L : L = getLatestPrivateVersion(b, T)
  OBVIOUS
<1>2. IsBuild(b) /\ c \in Nat /\ T \in DOMAIN b.private /\ getOriginPrivateVersion(b, T) <= c
  BY DEF Plain, Fits
<1>3. /\ L \in ToSet(b.private[T])
      /\ \A p \in ToSet(b.private[T]) : p \in Nat /\ p <= L
  BY <1>1, <1>2, PrivateVersions, LatestIs
<1>4. V = getBestCompatInterfaceVersion(b, T, L, c)
  BY <1>1 DEF VersionAt
<1>5. /\ V \in ToSet(b.private[T]) /\ V <= c
      /\ \A p \in ToSet(b.private[T]) : p <= L /\ p <= c => p <= V
  BY <1>2, <1>3, <1>4, BestVersion
<1>6. getBestCompatInterfaceVersion(b, T, V, c) = V
  BY <1>2, <1>5, BestVersion
<1> QED  BY <1>1, <1>3, <1>5, <1>6

(* As that version a struct has all that it hands on.                      *)
LEMMA HandedOnAt ==
  ASSUME NEW b, NEW c, Plain(b, c), NEW T, Fits(b, T, c), NEW V, V = VersionAt(b, T, c)
  PROVE  /\ HandedOn(b, T, V, c) = Names(b, T, V)
         /\ Lasting(b, T, c) \subseteq Names(b, T, V)
         /\ Lasting(b, T, c) \subseteq Names(b, T, getLatestPrivateVersion(b, T))
         /\ \A name \in Names(b, T, getLatestPrivateVersion(b, T)) :
              name \in Lasting(b, T, c) <=>
                \A v \in ToSet(b.private[T]) : V <= v => name \in Names(b, T, v)
<1>1. PICK L : L = getLatestPrivateVersion(b, T)
  OBVIOUS
<1>2. /\ V \in ToSet(b.private[T]) /\ V \in Nat /\ L \in ToSet(b.private[T])
      /\ getBestCompatInterfaceVersion(b, T, V, c) = V
      /\ \A p \in ToSet(b.private[T]) : p \in Nat /\ p <= L
  BY <1>1, VersionAtIs
<1>3. HandedOn(b, T, V, c) = Names(b, T, V)
  BY <1>2 DEF HandedOn
<1>4. V = getBestCompatInterfaceVersion(b, T, L, c)
  BY <1>1 DEF VersionAt
<1>5. Lasting(b, T, c) = {name \in Names(b, T, L) :
                            \A v \in ToSet(b.private[T]) : V <= v /\ v <= L => name \in Names(b, T, v)}
  BY <1>1, <1>4 DEF Lasting, HandedOn
<1>6. Lasting(b, T, c) \subseteq Names(b, T, V)
  BY <1>2, <1>5
<1> QED  BY <1>1, <1>2, <1>3, <1>5, <1>6

(* The members that all versions from one to another have                  *)
InAll(b, T, low, v) ==
  {name \in Names(b, T, v) :
     \A p \in ToSet(b.private[T]) : low <= p /\ p <= v => name \in Names(b, T, p)}

(* A version of a struct that is in the message, or will be                *)
LEMMA VersionOf ==
  ASSUME NEW b, NEW c, Plain(b, c), NEW T, Fits(b, T, c), NEW v \in ToSet(b.private[T]),
         NEW V, V = getBestCompatInterfaceVersion(b, T, v, c), V = VersionAt(b, T, c)
  PROVE  /\ V <= v /\ v \in Nat /\ V \in Nat
         /\ HandedOn(b, T, v, c) = InAll(b, T, V, v)
<1>1. IsBuild(b) /\ c \in Nat /\ T \in DOMAIN b.private /\ getOriginPrivateVersion(b, T) <= c
  BY DEF Plain, Fits
<1>2. V <= v
  <2>1. PICK best : best = getBestCompatInterfaceVersion(b, T, v, c)
    OBVIOUS
  <2>2. best <= v
    BY <1>1, <2>1, BestVersion
  <2> QED  BY <2>1, <2>2
<1>3. v \in Nat /\ V \in Nat
  BY VersionAtIs
<1> QED  BY <1>2, <1>3 DEF HandedOn, InAll

(* What is kept of a struct that becomes an older one                      *)
LEMMA KeptDown ==
  ASSUME NEW b, NEW c, Plain(b, c), NEW T, Fits(b, T, c), NEW v \in ToSet(b.private[T]),
         NEW target, target = getBestCompatInterfaceVersion(b, T, v, c),
         target = VersionAt(b, T, c), target # v,
         NEW kept, kept \subseteq Names(b, T, v),
         kept \cap HandedOn(b, T, v, c) = Lasting(b, T, c),
         NEW chain, chain = ToVersion(b, T, v, target)
  PROVE  /\ Last(chain) = target
         /\ kept \cap Handed(b, T, chain) = Lasting(b, T, c)
<1>1. IsBuild(b) /\ T \in DOMAIN b.private
  BY DEF Plain, Fits
<1>2. target <= v /\ v \in Nat /\ target \in Nat /\ target \in ToSet(b.private[T])
      /\ \A p \in ToSet(b.private[T]) : p \in Nat
  <2>1. target <= v /\ v \in Nat /\ target \in Nat
    BY VersionOf
  <2>2. target \in ToSet(b.private[T]) /\ \A p \in ToSet(b.private[T]) : p \in Nat
    BY VersionAtIs
  <2> QED  BY <2>1, <2>2
<1>3. target < v
  BY <1>2
<1>4. /\ IsSequence(chain) /\ chain # <<>> /\ Last(chain) = target
      /\ Elements(chain) = VersionsBetween(b, T, target, v)
  BY <1>1, <1>2, <1>3, VersionsDown
<1>5. Head(chain) \in Elements(chain) /\ ToSet(chain) = Elements(chain)
  BY <1>4, TailElements, SequenceOfElements, SequenceIs
<1>6. HandedOn(b, T, v, c) = InAll(b, T, target, v)
  BY VersionOf
<1>7. Handed(b, T, chain) = {name \in Names(b, T, Head(chain)) :
        \A p \in VersionsBetween(b, T, target, v) : name \in Names(b, T, p)}
  BY <1>4, <1>5 DEF Handed
<1>8. ASSUME NEW name \in kept
      PROVE  name \in Handed(b, T, chain) <=> name \in HandedOn(b, T, v, c)
  <2>1. name \in Handed(b, T, chain)
          <=> \A p \in VersionsBetween(b, T, target, v) : name \in Names(b, T, p)
    BY <1>4, <1>5, <1>7
  <2>2. name \in HandedOn(b, T, v, c) <=>
          \A p \in ToSet(b.private[T]) : target <= p /\ p <= v => name \in Names(b, T, p)
    BY <1>6 DEF InAll
  <2>3. \A p \in ToSet(b.private[T]) : target <= p /\ p <= v <=>
          p \in VersionsBetween(b, T, target, v) \/ p = v
    BY <1>2 DEF VersionsBetween
  <2>4. VersionsBetween(b, T, target, v) \subseteq ToSet(b.private[T])
    BY DEF VersionsBetween
  <2> QED  BY <2>1, <2>2, <2>3, <2>4
<1> QED  BY <1>4, <1>8

(* What an older struct hands on to the one it becomes                     *)
LEMMA HandedUp ==
  ASSUME NEW b, NEW c, Plain(b, c), NEW T, Fits(b, T, c), NEW v \in ToSet(b.private[T]),
         NEW target, target = getBestCompatInterfaceVersion(b, T, v, c),
         target = VersionAt(b, T, c), target # v,
         NEW chain, chain = FromVersion(b, T, v, target)
  PROVE  /\ Head(chain) = target /\ IsSequence(chain) /\ chain # <<>>
         /\ Handed(b, T, Append(chain, v)) = HandedOn(b, T, v, c)
<1>1. IsBuild(b) /\ T \in DOMAIN b.private
  BY DEF Plain, Fits
<1>2. target <= v /\ v \in Nat /\ target \in Nat /\ target \in ToSet(b.private[T])
      /\ \A p \in ToSet(b.private[T]) : p \in Nat
  <2>1. target <= v /\ v \in Nat /\ target \in Nat
    BY VersionOf
  <2>2. target \in ToSet(b.private[T]) /\ \A p \in ToSet(b.private[T]) : p \in Nat
    BY VersionAtIs
  <2> QED  BY <2>1, <2>2
<1>3. target < v
  BY <1>2
<1>4. /\ IsSequence(chain) /\ chain # <<>> /\ Head(chain) = target
      /\ Elements(chain) = VersionsBetween(b, T, target, v)
  BY <1>1, <1>2, <1>3, VersionsUp
<1>5. PICK all : all = Append(chain, v)
  OBVIOUS
<1>6. Head(all) = target /\ ToSet(all) = Elements(chain) \cup {v}
  <2>1. chain \in Seq(Elements(chain)) /\ Len(chain) \in Nat /\ Len(chain) >= 1
    BY <1>4, SequenceOfElements, TailElements DEF IsSequence
  <2>2. all \in Seq(Elements(chain) \cup {v}) /\ Len(all) = Len(chain) + 1
        /\ (\A i \in 1..Len(chain) : all[i] = chain[i]) /\ all[Len(chain) + 1] = v
    BY <1>5, <2>1
  <2>3. ToSet(all) = Elements(all)
    BY <2>2, SequenceIs
  <2>4. all[1] = chain[1] /\ Head(all) = all[1] /\ Head(chain) = chain[1]
    BY <2>1, <2>2, HeadIs
  <2>5. Elements(all) = Elements(chain) \cup {v}
    <3>1. \A i \in 1..Len(all) : i \in 1..Len(chain) \/ i = Len(chain) + 1
      BY <2>1, <2>2
    <3>2. \A i \in 1..Len(chain) : i \in 1..Len(all)
      BY <2>1, <2>2
    <3>3. Len(chain) + 1 \in 1..Len(all)
      BY <2>1, <2>2
    <3> QED  BY <2>2, <3>1, <3>2, <3>3 DEF Elements
  <2> QED  BY <1>4, <2>3, <2>4, <2>5
<1>7. HandedOn(b, T, v, c) = InAll(b, T, target, v)
  BY VersionOf
<1>8. Handed(b, T, all) = {name \in Names(b, T, target) :
        \A p \in VersionsBetween(b, T, target, v) \cup {v} : name \in Names(b, T, p)}
  BY <1>4, <1>6 DEF Handed
<1>9. ASSUME NEW p \in ToSet(b.private[T])
      PROVE  target <= p /\ p <= v <=> p \in VersionsBetween(b, T, target, v) \cup {v}
  <2>1. p \in Nat /\ v \in Nat /\ target \in Nat /\ target <= v
    BY <1>2
  <2> QED  BY <2>1 DEF VersionsBetween
<1>10. VersionsBetween(b, T, target, v) \cup {v} \subseteq ToSet(b.private[T])
       /\ target \in VersionsBetween(b, T, target, v) \cup {v}
  BY <1>2, <1>3 DEF VersionsBetween
<1>11. Handed(b, T, all) = InAll(b, T, target, v)
  BY <1>2, <1>8, <1>9, <1>10 DEF InAll
<1> QED  BY <1>4, <1>5, <1>7, <1>11

-----------------------------------------------------------------------------
(* The members that a struct has in the message.                           *)

(* They are members, of parts that the message can hold.                   *)
LEMMA MessageMembersAre ==
  ASSUME NEW b, NEW c, Plain(b, c), NEW T, Fits(b, T, c)
  PROVE  /\ IsSequence(MessageMembers(b, T, c))
         /\ ToSet(MessageMembers(b, T, c)) = Elements(MessageMembers(b, T, c))
         /\ PlainLayout(b.layout[T][VersionAt(b, T, c)])
         /\ Names(b, T, VersionAt(b, T, c)) = {m.name : m \in ToSet(MessageMembers(b, T, c))}
         /\ \A m \in ToSet(MessageMembers(b, T, c)) :
              /\ m \in Members /\ m.n \in Nat /\ m.kind \in MemberKinds
              /\ m.kind # "number" => Fits(b, m.type, c)
              /\ m.kind \in {"member", "array"} => m.version \in ToSet(b.private[m.type])
<1>1. PICK V : V = VersionAt(b, T, c)
  OBVIOUS
<1>2. PICK s : s = MessageMembers(b, T, c)
  OBVIOUS
<1>3. s = b.layout[T][V].members
  BY <1>1, <1>2 DEF MessageMembers
<1>4. IsBuild(b) /\ T \in DOMAIN b.private /\ c \in Nat
  BY DEF Plain, Fits
<1>5. V \in ToSet(b.private[T]) /\ V \in Nat /\ V <= c
  BY <1>1, VersionAtIs
<1>6. /\ s \in Seq(Members)
      /\ \A m \in ToSet(s) : m.kind # "number" =>
           IsPart(b, m) /\ getOriginPrivateVersion(b, m.type) <= V
  BY <1>3, <1>4, <1>5, LayoutIs
<1>7. IsSequence(s) /\ ToSet(s) = Elements(s) /\ Elements(s) \subseteq Members
  BY <1>6, SequenceIs
<1>8. PlainLayout(b.layout[T][V])
  BY <1>4, <1>5 DEF Plain
<1>9. Names(b, T, V) = {m.name : m \in ToSet(s)}
  BY <1>3 DEF Names
<1>10. ASSUME NEW m \in ToSet(s)
       PROVE  /\ m \in Members /\ m.n \in Nat /\ m.kind \in MemberKinds
              /\ m.kind # "number" => Fits(b, m.type, c)
              /\ m.kind \in {"member", "array"} => m.version \in ToSet(b.private[m.type])
  <2>1. m \in Members
    BY <1>7
  <2>2. m.n \in Nat /\ m.kind \in MemberKinds
    BY <2>1 DEF Members
  <2>3. ASSUME m.kind # "number"
        PROVE  /\ Fits(b, m.type, c)
               /\ m.kind # "pointer" => m.version \in ToSet(b.private[m.type])
    <3>1. IsPart(b, m) /\ getOriginPrivateVersion(b, m.type) <= V
      BY <1>6, <2>3
    <3>2. m.type \in DOMAIN b.private /\ (m.kind # "pointer" => m.version \in ToSet(b.private[m.type]))
      BY <3>1 DEF IsPart
    <3>3. getOriginPrivateVersion(b, m.type) \in Nat
      BY <1>4, <3>2, LatestIs
    <3> QED  BY <1>4, <1>5, <3>1, <3>2, <3>3 DEF Fits
  <2> QED  BY <2>1, <2>2, <2>3
<1> QED  BY <1>1, <1>2, <1>7, <1>8, <1>9, <1>10

(* A part has all that its struct has in every version since.              *)
LEMMA PartLasts ==
  ASSUME NEW b, NEW c, Plain(b, c), NEW T, Fits(b, T, c),
         NEW m \in ToSet(MessageMembers(b, T, c)), m.kind \in {"member", "array"}
  PROVE  /\ getBestCompatInterfaceVersion(b, m.type, m.version, c) = VersionAt(b, m.type, c)
         /\ HandedOn(b, m.type, m.version, c) = Lasting(b, m.type, c)
<1>1. T \in DOMAIN b.private /\ getOriginPrivateVersion(b, T) <= c
  BY DEF Fits
<1>2. PartsAsLatest(b, T, c)
  BY <1>1 DEF Plain
<1> QED  BY <1>2 DEF PartsAsLatest

(* Members of one name are alike.                                          *)
LEMMA OneName ==
  ASSUME NEW b, NEW c, Plain(b, c), NEW T \in DOMAIN b.private,
         NEW v \in ToSet(b.private[T]), NEW u \in ToSet(b.private[T]),
         NEW m \in ToSet(b.layout[T][v].members), NEW k \in ToSet(b.layout[T][u].members),
         m.name = k.name
  PROVE  m.kind = k.kind /\ m.type = k.type /\ m.n = k.n /\ (v = u => m = k)
<1>1. KeepsMembers(b, T)
  BY DEF Plain
<1> QED  BY <1>1 DEF KeepsMembers, SameMember

(* Places of members, one after another                                    *)
PlacesIn(members, from) ==
  FlattenSeq([i \in 1..Len(members) |-> MemberPlaces(members[i], from)])

(* Both builds have the same members in a message.                         *)
LEMMA SameMessage ==
  ASSUME NEW w, NEW r, NEW c, Plain(w, c), Plain(r, c), SameStructs(w, r, c),
         NEW T \in DOMAIN w.private, Fits(r, T, c)
  PROVE  /\ Fits(w, T, c) /\ VersionAt(w, T, c) = VersionAt(r, T, c)
         /\ Len(MessageMembers(w, T, c)) = Len(MessageMembers(r, T, c))
         /\ \A i \in 1..Len(MessageMembers(w, T, c)) :
              SamePart(w, r, c, MessageMembers(w, T, c)[i], MessageMembers(r, T, c)[i])
<1>1. /\ IsBuild(w) /\ IsBuild(r) /\ c \in Nat /\ T \in DOMAIN w.private \cap DOMAIN r.private
      /\ getOriginPrivateVersion(r, T) <= c
  BY DEF Plain, Fits
<1>2. PICK V : V = VersionAt(r, T, c)
  OBVIOUS
<1>3. V \in ToSet(r.private[T]) /\ V <= c /\ V \in Nat
  BY <1>2, VersionAtIs
<1>4. LatestSymbol(w, c, T) = LatestSymbol(r, c, T)
  BY <1>1, SameLatest
<1>5. VersionAt(w, T, c) = V
  BY <1>2, <1>4 DEF LatestSymbol, StructSymbol, VersionSymbol, VersionAt
<1>6. V \in ToSet(w.private[T]) /\ SameLayout(w, r, c, T, V)
  BY <1>1, <1>3, SameVersion
<1>7. getOriginPrivateVersion(w, T) <= V /\ getOriginPrivateVersion(w, T) \in Nat
  BY <1>1, <1>6, PrivateVersions
<1>8. Fits(w, T, c)
  BY <1>1, <1>3, <1>7 DEF Fits
<1> QED  BY <1>2, <1>5, <1>6, <1>8 DEF SameLayout, MessageMembers

(* A member that one has in a message the other has there.                 *)
LEMMA MemberOfBoth ==
  ASSUME NEW w, NEW r, NEW c, Plain(w, c), Plain(r, c), SameStructs(w, r, c),
         NEW T \in DOMAIN w.private, Fits(r, T, c), NEW m \in ToSet(MessageMembers(r, T, c))
  PROVE  \E k \in ToSet(MessageMembers(w, T, c)) :
           k.name = m.name /\ k.kind = m.kind /\ k.type = m.type /\ k.n = m.n
<1>1. /\ Fits(w, T, c)
      /\ Len(MessageMembers(w, T, c)) = Len(MessageMembers(r, T, c))
      /\ \A i \in 1..Len(MessageMembers(w, T, c)) :
           SamePart(w, r, c, MessageMembers(w, T, c)[i], MessageMembers(r, T, c)[i])
  BY SameMessage
<1>2. ToSet(MessageMembers(r, T, c)) = Elements(MessageMembers(r, T, c))
      /\ ToSet(MessageMembers(w, T, c)) = Elements(MessageMembers(w, T, c))
  BY <1>1, MessageMembersAre
<1>3. PICK i \in 1..Len(MessageMembers(r, T, c)) : m = MessageMembers(r, T, c)[i]
  BY <1>2 DEF Elements
<1>4. MessageMembers(w, T, c)[i] \in ToSet(MessageMembers(w, T, c))
  BY <1>1, <1>2 DEF Elements
<1>5. SamePart(w, r, c, MessageMembers(w, T, c)[i], m)
  BY <1>1, <1>3
<1> QED  BY <1>4, <1>5 DEF SamePart

(* So they have the same places.                                           *)
LEMMA SamePlaces ==
  ASSUME NEW w, NEW r, NEW c, Plain(w, c), Plain(r, c), SameStructs(w, r, c),
         NEW T \in DOMAIN w.private, Fits(r, T, c), NEW from
  PROVE  PlacesIn(MessageMembers(w, T, c), from) = PlacesIn(MessageMembers(r, T, c), from)
<1>1. PICK s, t : s = MessageMembers(w, T, c) /\ t = MessageMembers(r, T, c)
  OBVIOUS
<1>2. Len(s) = Len(t) /\ (\A i \in 1..Len(s) : SamePart(w, r, c, s[i], t[i])) /\ Fits(w, T, c)
  BY <1>1, SameMessage
<1>3. \A i \in 1..Len(s) : s[i].kind \in MemberKinds
  <2>1. ToSet(s) = Elements(s) /\ \A m \in ToSet(s) : m.kind \in MemberKinds
    BY <1>1, <1>2, MessageMembersAre
  <2> QED  BY <2>1 DEF Elements
<1>4. ASSUME NEW i \in 1..Len(s)
      PROVE  MemberPlaces(s[i], from) = MemberPlaces(t[i], from)
  <2>1. PICK m, k : m = s[i] /\ k = t[i]
    OBVIOUS
  <2>2. m.kind \in MemberKinds /\ m.kind = k.kind /\ m.name = k.name /\ m.n = k.n
    BY <1>2, <1>3, <2>1 DEF SamePart
  <2>3. CASE m.kind = "number"
    BY <2>1, <2>2, <2>3 DEF MemberPlaces
  <2>4. CASE m.kind = "pointer"
    BY <2>1, <2>2, <2>4 DEF MemberPlaces
  <2>5. CASE m.kind = "member"
    BY <2>1, <2>2, <2>5 DEF MemberPlaces
  <2>6. CASE m.kind = "array"
    BY <2>1, <2>2, <2>6 DEF MemberPlaces
  <2> QED  BY <2>2, <2>3, <2>4, <2>5, <2>6 DEF MemberKinds
<1>5. [i \in 1..Len(s) |-> MemberPlaces(s[i], from)] = [i \in 1..Len(t) |-> MemberPlaces(t[i], from)]
  BY <1>2, <1>4
<1> QED  BY <1>1, <1>5 DEF PlacesIn

-----------------------------------------------------------------------------
(* The places of what an item is replaced by.                              *)

(* The members of a struct have the places that the struct has.            *)
LEMMA PlacesOfMembers ==
  ASSUME NEW b, IsBuild(b), NEW origin, NEW item,
         item.type \in DOMAIN b.private, item.version \in ToSet(b.private[item.type])
  PROVE  Places(origin, MembersOf(b, item))
           = PlacesIn(b.layout[item.type][item.version].members, Sent(origin, item.from))
<1> DEFINE members == b.layout[item.type][item.version].members
           items == MembersOf(b, item)
           from == Sent(origin, item.from)
<1>1. members \in Seq(Members)
  BY LayoutIs
<1>2. DOMAIN members = 1..Len(members) /\ Len(members) \in Nat
      /\ \A i \in 1..Len(members) : members[i] \in Members
  <2> HIDE DEF members
  <2> QED  BY <1>1
<1>3. items = [i \in 1..Len(members) |->
                 [do |-> members[i].kind, member |-> members[i],
                  at |-> item.at, from |-> item.from, kept |-> item.kept]]
  BY <1>2 DEF MembersOf, Layout
<1> HIDE DEF members, items
<1>4. Len(items) = Len(members) /\ \A i \in 1..Len(members) :
        items[i].do = members[i].kind /\ items[i].member = members[i] /\ items[i].from = item.from
  BY <1>2, <1>3
<1>5. ASSUME NEW i \in 1..Len(members)
      PROVE  ItemPlaces(origin, items[i]) = MemberPlaces(members[i], from)
  <2>1. items[i].do \in MemberKinds /\ items[i].do # "struct"
    BY <1>2, <1>4 DEF Members, MemberKinds
  <2> QED  BY <1>4, <2>1 DEF ItemPlaces
<1>6. [i \in 1..Len(items) |-> ItemPlaces(origin, items[i])]
        = [i \in 1..Len(members) |-> MemberPlaces(members[i], from)]
  BY <1>4, <1>5
<1> QED  BY <1>6 DEF Places, PlacesIn, members, items

(* The place of a struct                                                   *)
LEMMA PlacesOfStruct ==
  ASSUME NEW origin, NEW item, item.do = "struct"
  PROVE  /\ ItemPlaces(origin, item) = <<StructAt(Sent(origin, item.from))>>
         /\ Placed(origin, <<item>>) /\ Places(origin, <<item>>) = ItemPlaces(origin, item)
<1>1. ItemPlaces(origin, item) = <<StructAt(Sent(origin, item.from))>>
  BY DEF ItemPlaces, MemberKinds
<1> QED  BY <1>1, AgendaOfOne, PlacesOfOne

(* The struct that a member is has the place of the member.                *)
LEMMA PlacesOfPart ==
  ASSUME NEW b, NEW ctx, NEW n, NEW item, IsItem(b, ctx, n, item), item.do = "member",
         NEW origin, IsPlace(origin[item.from[1]])
  PROVE  Places(origin, <<SubStruct(b, item, 1)>>) = ItemPlaces(origin, item)
<1>1. /\ SubStruct(b, item, 1).do = "struct"
      /\ SubStruct(b, item, 1).from = Part(item.from, item.member.name, 1)
  BY DEF SubStruct, Whole, Struct
<1>2. IsPlace(item.from) /\ item.member.kind = "member"
  BY ItemIsMember DEF MemberKinds
<1>3. Sent(origin, Part(item.from, item.member.name, 1))
        = Part(Sent(origin, item.from), item.member.name, 1)
  BY <1>2, SentPart
<1>4. ItemPlaces(origin, item) = MemberPlaces(item.member, Sent(origin, item.from))
  BY DEF ItemPlaces, MemberKinds
<1>5. ItemPlaces(origin, item) = <<StructAt(Part(Sent(origin, item.from), item.member.name, 1))>>
  BY <1>2, <1>4 DEF MemberPlaces
<1> QED  BY <1>1, <1>3, <1>5, PlacesOfStruct

(* The elements of an array have the places of the array.                  *)
LEMMA PlacesOfElements ==
  ASSUME NEW b, IsBuild(b), NEW ctx, NEW n, NEW item, IsItem(b, ctx, n, item),
         item.do = "array", NEW origin, IsPlace(origin[item.from[1]])
  PROVE  /\ Places(origin, FlattenSeq(OneByOne(b, item))) = ItemPlaces(origin, item)
         /\ ItemPlaces(origin, item)
              = [j \in 1..item.member.n |->
                   StructAt(Part(Sent(origin, item.from), item.member.name, j))]
<1>1. PICK N, from, name : N = item.member.n /\ from = Sent(origin, item.from)
                           /\ name = item.member.name
  OBVIOUS
<1>2. N \in Nat /\ item.member.kind = "array" /\ IsPlace(item.from)
  BY <1>1, ArrayIs
<1> DEFINE s == [j \in 1..N |-> StructAt(Part(from, name, j))]
           seqs == OneByOne(b, item)
<1>3. ItemPlaces(origin, item) = s
  <2>1. ItemPlaces(origin, item) = MemberPlaces(item.member, from)
    BY <1>1 DEF ItemPlaces, MemberKinds
  <2> QED  BY <1>1, <1>2, <2>1 DEF MemberPlaces
<1>4. IsSequence(s) /\ Len(s) = N
  BY <1>2 DEF IsSequence
<1>5. IsSequence(seqs) /\ Len(seqs) = N
  BY <1>1, <1>2 DEF OneByOne, IsSequence
<1>6. ASSUME NEW j \in 1..N
      PROVE  /\ Placed(origin, seqs[j])
             /\ Places(origin, seqs[j]) = <<StructAt(Part(from, name, j))>>
  <2>1. PICK e, sub : e = [do |-> "element", at |-> SubStruct(b, item, j).at]
                      /\ sub = SubStruct(b, item, j)
    OBVIOUS
  <2>2. seqs[j] = <<e, sub>>
    BY <1>1, <2>1 DEF OneByOne
  <2>3. ItemPlaces(origin, e) = <<>>
    BY <2>1 DEF ItemPlaces, MemberKinds
  <2>4. sub.do = "struct" /\ sub.from = Part(item.from, name, j)
    BY <1>1, <2>1 DEF SubStruct, Whole, Struct
  <2>5. Sent(origin, Part(item.from, name, j)) = Part(from, name, j)
    BY <1>1, <1>2, SentPart
  <2>6. /\ Placed(origin, <<sub>>)
        /\ Places(origin, <<sub>>) = <<StructAt(Part(from, name, j))>>
    BY <2>4, <2>5, PlacesOfStruct
  <2>7. Placed(origin, <<e>>) /\ Places(origin, <<e>>) = <<>>
    BY <2>3, AgendaOfOne, PlacesOfOne
  <2>8. <<e, sub>> = <<e>> \o <<sub>>
    BY TwoElements
  <2>9. <<>> \o Places(origin, <<sub>>) = Places(origin, <<sub>>)
    BY <2>6, AgendaOfOne, NothingAdded
  <2>10. /\ Placed(origin, <<e>> \o <<sub>>)
         /\ Places(origin, <<e>> \o <<sub>>) = Places(origin, <<e>>) \o Places(origin, <<sub>>)
    BY <2>6, <2>7, PlacesConcat
  <2> QED  BY <2>2, <2>6, <2>7, <2>8, <2>9, <2>10
<1> HIDE DEF seqs, s
<1>7. Places(origin, FlattenSeq(seqs)) = FlattenSeq([j \in 1..Len(seqs) |-> Places(origin, seqs[j])])
  BY <1>5, <1>6, PlacesFlattened
<1>8. [j \in 1..Len(seqs) |-> Places(origin, seqs[j])] = [j \in 1..Len(s) |-> <<s[j]>>]
  <2>1. \A j \in 1..N : s[j] = StructAt(Part(from, name, j))
    BY DEF s
  <2> QED  BY <1>4, <1>5, <1>6, <2>1
<1>9. FlattenSeq([j \in 1..Len(s) |-> <<s[j]>>]) = s
  BY <1>4, FlattenedSingles
<1> QED  BY <1>1, <1>3, <1>7, <1>8, <1>9 DEF seqs, s

(* What is first on the agenda has its places, and so have the items that replace it. *)
LEMMA AgendaPlaces ==
  ASSUME NEW origin, NEW old, NEW items, Placed(origin, old), old # <<>>,
         Placed(origin, items)
  PROVE  /\ Places(origin, old) = Then(ItemPlaces(origin, Head(old)), Places(origin, Tail(old)))
         /\ Places(origin, items \o Tail(old)) = Then(Places(origin, items), Places(origin, Tail(old)))
         /\ IsSequence(Places(origin, Tail(old)))
<1>1. /\ Places(origin, old) = ItemPlaces(origin, Head(old)) \o Places(origin, Tail(old))
      /\ Placed(origin, Tail(old))
  BY PlacesHead
<1>2. PICK rest : rest = Tail(old)
  OBVIOUS
<1>3. Placed(origin, rest)
  BY <1>1, <1>2
<1>4. Places(origin, items \o rest) = Places(origin, items) \o Places(origin, rest)
  BY <1>3, PlacesConcat
<1>5. IsSequence(Places(origin, rest))
  BY <1>3, PlacesEachAre
<1>6. Places(origin, items \o rest) = Then(Places(origin, items), Places(origin, rest))
  BY <1>4 DEF Then
<1>7. Places(origin, old) = Then(ItemPlaces(origin, Head(old)), Places(origin, Tail(old)))
  BY <1>1 DEF Then
<1> QED  BY <1>2, <1>5, <1>6, <1>7

(* Nothing has no place.                                                   *)
LEMMA PlacesOfNone ==
  ASSUME NEW origin
  PROVE  Places(origin, <<>>) = <<>> /\ Placed(origin, <<>>)
<1>1. PlacesEach(origin, <<>>) = <<>>
  BY DEF PlacesEach
<1>2. Placed(origin, <<>>)
  BY AgendaOfOne DEF Placed
<1>3. Places(origin, <<>>) = FlattenSeq(<<>>)
  BY <1>1, <1>2, PlacesEachAre
<1> QED  BY <1>2, <1>3 DEF FlattenSeq

-----------------------------------------------------------------------------
(* The types of places.                                                    *)

(* The parts of a struct are of the types that its members say.            *)
LEMMA PartIsTyped ==
  ASSUME NEW b, NEW c, Plain(b, c), NEW g, NEW types, TypedBy(b, g, types),
         NEW place \in DOMAIN types, NEW T, T = types[place], Fits(b, T, c),
         NEW m \in ToSet(MessageMembers(b, T, c)), NEW target, target = At(g, Part(place, m.name, 1))
  PROVE  /\ m.kind \in {"member", "array"} =>
              \A j \in 1..m.n : /\ Part(place, m.name, j) \in DOMAIN types
                                /\ types[Part(place, m.name, j)] = m.type
         /\ m.kind = "pointer" /\ target # Null =>
              target \in DOMAIN types /\ types[target] = m.type
         /\ IsPlace(place) /\ T \in DOMAIN b.private
<1>1. IsPlace(place) /\ T \in DOMAIN b.private /\ TypedParts(b, g, types, place)
  BY DEF TypedBy
<1>2. PICK V : V = VersionAt(b, T, c)
  OBVIOUS
<1>3. V \in ToSet(b.private[T]) /\ m \in ToSet(b.layout[T][V].members)
  BY <1>2, VersionAtIs DEF MessageMembers
<1> QED  BY <1>1, <1>3 DEF TypedParts

-----------------------------------------------------------------------------
(* The steps of the writer.                                                *)

(* A letter is that of the writer, with these types.                       *)
IsLetter(letter, types) ==
  letter.build = writer /\ letter.ctx = sctx /\ letter.graph = graph /\ letter.types = types

(* What a step of the writer finds                                         *)
WriterFinds(types, letter, item, rest) ==
  /\ IsSequence(rest) /\ IsSequence(out) /\ Len(out) \in Nat /\ Len(out) >= Len(Header)
  /\ Traces(letter, out, FromRoot,
            Tracing(Then(ItemPlaces(Itself, item), rest), Len(out), Seen))
  /\ IsItem(writer, sctx, made, item) /\ ItemSends(types, item)
  /\ item.do # "element" => item.from[1] \in Objects
  /\ Plain(writer, sctx.version) /\ IsBuild(writer) /\ sctx \in Contexts
  /\ IsLetter(letter, types)

(* The writer finds its next item so.                                      *)
LEMMA WriterFindsIt ==
  ASSUME PlainStructs, ReadingInv, NEW types, WrittenAsTold(types), phase = "write", agenda # <<>>
  PROVE  WriterFinds(types, Letter(types), Head(agenda), Places(Itself, Tail(agenda)))
<1>1. PICK rest, head, letter : /\ rest = Places(Itself, Tail(agenda)) /\ head = Head(agenda)
                                /\ letter = Letter(types)
  OBVIOUS
<1>2. BodyInv /\ Typed /\ IsAgenda
  BY DEF ReadingInv, BodyInv, Typed
<1>3. /\ IsItem(writer, sctx, made, head) /\ IsBuild(writer) /\ sctx \in Contexts
      /\ IsSequence(out) /\ Len(out) \in Nat /\ Len(out) >= Len(Header)
      /\ head.do # "element" => head.from[1] \in Objects
  BY <1>1, <1>2, WritersItem
<1>4. IsSequence(agenda) /\ \A x \in Elements(agenda) : IsItem(writer, sctx, made, x)
  BY <1>2 DEF IsAgenda, Worker, WorkerContext
<1>5. head \in Elements(agenda)
  BY <1>1, <1>4, TailElements
<1>6. Placed(Itself, agenda)
  BY <1>3, <1>4, ItemsArePlaced
<1>7. IsSequence(rest) /\ Places(Itself, agenda) = Then(ItemPlaces(Itself, head), rest)
  BY <1>1, <1>6, PlacesOfNone, AgendaPlaces
<1>8. /\ Traces(letter, out, FromRoot, Tracing(Places(Itself, agenda), Len(out), Seen))
      /\ ItemSends(types, head)
  BY <1>1, <1>5 DEF WrittenAsTold
<1>9. Plain(writer, sctx.version)
  BY SidesArePlain
<1>10. IsLetter(letter, types)
  BY <1>1 DEF Letter, IsLetter
<1> QED  BY <1>1, <1>3, <1>7, <1>8, <1>9, <1>10 DEF WriterFinds

(* A step of the writer keeps it if what was written tells of what is left.*)
LEMMA WriterTellsOn ==
  ASSUME ReadingInv, NEW types, WrittenAsTold(types), phase = "write", agenda # <<>>,
         UNCHANGED <<pair, graph, sctx, phase>>,
         NEW items, IsSequence(items), agenda' = items \o Tail(agenda),
         \A x \in Elements(items) : IsItem(writer, sctx, made, x) /\ ItemSends(types, x),
         NEW letter, letter = Letter(types),
         NEW rest, rest = Places(Itself, Tail(agenda)),
         Traces(letter, out', FromRoot,
                Tracing(Then(Places(Itself, items), rest), Len(out'), Seen'))
  PROVE  WrittenAsTold(types)'
<1>1. BodyInv /\ Typed /\ IsAgenda
  BY DEF ReadingInv, BodyInv, Typed
<1>2. /\ IsBuild(writer) /\ IsSequence(agenda)
      /\ \A x \in Elements(agenda) : IsItem(writer, sctx, made, x)
  BY <1>1, WritersItem DEF IsAgenda, Worker, WorkerContext
<1>3. /\ phase' = "write" /\ sctx' = sctx /\ graph' = graph /\ pair' = pair /\ writer' = writer
  BY DEF writer
<1>4. Letter(types)' = letter /\ FromRoot' = FromRoot
  BY <1>3 DEF Letter, FromRoot
<1>5. Places(Itself, agenda') = Then(Places(Itself, items), rest)
  <2>1. Placed(Itself, agenda) /\ Placed(Itself, items)
    BY <1>2, ItemsArePlaced
  <2> QED  BY <2>1, AgendaPlaces
<1>6. ASSUME NEW item \in Elements(agenda')
      PROVE  ItemSends(types, item)'
  <2>1. Elements(agenda') \subseteq Elements(items) \cup Elements(agenda)
    BY <1>2, Continued
  <2>2. \A x \in Elements(agenda) : ItemSends(types, x)
    BY DEF WrittenAsTold
  <2>3. ItemSends(types, item)
    BY <2>1, <2>2
  <2> QED  BY <1>3, <2>3 DEF ItemSends, StructSends, MemberSends, CanHold
<1> QED  BY <1>3, <1>4, <1>5, <1>6 DEF WrittenAsTold

(* A step that gives the message up keeps it.                              *)
LEMMA StopTells ==
  ASSUME NEW types, phase' = "idle"
  PROVE  WrittenAsTold(types)' /\ ReadAsTold(types)'
BY DEF WrittenAsTold, ReadAsTold

(* A step that writes nothing keeps it if the places are the same.         *)
LEMMA WriterSplitsTold ==
  ASSUME PlainStructs, ReadingInv, NEW types, WrittenAsTold(types), phase = "write", agenda # <<>>,
         UNCHANGED <<pair, graph, sctx, out>>, Seen' = Seen,
         NEW items, IsSequence(items), Continue(items),
         \A x \in Elements(items) : IsItem(writer, sctx, made, x) /\ ItemSends(types, x),
         Places(Itself, items) = ItemPlaces(Itself, Head(agenda))
  PROVE  WrittenAsTold(types)'
<1>1. PICK rest, letter : rest = Places(Itself, Tail(agenda)) /\ letter = Letter(types)
  OBVIOUS
<1>2. WriterFinds(types, letter, Head(agenda), rest)
  BY <1>1, WriterFindsIt
<1>3. Traces(letter, out, FromRoot,
             Tracing(Then(Places(Itself, items), rest), Len(out), Seen))
  BY <1>2 DEF WriterFinds
<1>4. agenda' = items \o Tail(agenda) /\ phase' = phase /\ out' = out
  BY DEF Continue
<1> QED  BY <1>1, <1>3, <1>4, WriterTellsOn

(* A step that writes all of an item keeps it if the tokens tell of it.    *)
LEMMA WriterIsDoneTold ==
  ASSUME PlainStructs, ReadingInv, NEW types, WrittenAsTold(types), phase = "write", agenda # <<>>,
         UNCHANGED <<pair, graph, sctx>>, Continue(<<>>),
         NEW letter, letter = Letter(types),
         NEW rest, rest = Places(Itself, Tail(agenda)), IsSequence(rest),
         Traces(letter, out', FromRoot, Tracing(rest, Len(out'), Seen'))
  PROVE  WrittenAsTold(types)'
<1>1. PICK none : none = <<>>
  OBVIOUS
<1>2. IsSequence(none) /\ Elements(none) = {} /\ Then(Places(Itself, none), rest) = rest
  BY <1>1, AgendaOfOne, PlacesOfNone, ThenIs
<1>3. agenda' = none \o Tail(agenda) /\ phase' = phase
  BY <1>1 DEF Continue
<1> QED  BY <1>2, <1>3, WriterTellsOn

(* What a struct on the agenda is                                          *)
LEMMA StructSendsIs ==
  ASSUME NEW types, NEW letter, NEW item, NEW rest, WriterFinds(types, letter, item, rest),
         item.do = "struct", NEW c, c = sctx.version
  PROVE  /\ StructInMessage(writer, sctx, item.type, item.version)
         /\ Fits(writer, item.type, c) /\ item.version \in ToSet(writer.private[item.type])
         /\ IsPlace(item.at) /\ IsPlace(item.from) /\ item.from[1] \in Objects
         /\ Sent(Itself, item.from) = item.from
         /\ StructSends(types, item)
         /\ VersionInMessage(writer, item, sctx) = VersionAt(writer, item.type, c)
         /\ getBestCompatInterfaceVersion(writer, item.type, item.version, c)
              = VersionAt(writer, item.type, c)
<1>1. /\ IsItem(writer, sctx, made, item) /\ StructSends(types, item) /\ item.from[1] \in Objects
      /\ IsBuild(writer) /\ sctx \in Contexts
  BY DEF WriterFinds, ItemSends
<1>2. StructInMessage(writer, sctx, item.type, item.version) /\ IsPlace(item.at) /\ IsPlace(item.from)
  BY <1>1, ItemIsStruct
<1>3. Fits(writer, item.type, c) /\ item.version \in ToSet(writer.private[item.type])
  BY <1>2 DEF StructInMessage, InMessage, Fits
<1>4. Sent(Itself, item.from) = item.from
  BY <1>1, <1>2, SentItself
<1>5. getBestCompatInterfaceVersion(writer, item.type, item.version, c)
        = VersionAt(writer, item.type, c)
  BY <1>1 DEF StructSends
<1>6. PICK target : target = VersionInMessage(writer, item, sctx)
  OBVIOUS
<1>7. getBestCompatInterfaceVersion(writer, item.type, item.version, sctx.version) = target
  BY <1>1, <1>2, <1>6, SymbolVersion
<1> QED  BY <1>1, <1>2, <1>3, <1>4, <1>5, <1>6, <1>7

(* toOldStruct keeps the members that last till the message.               *)
LEMMA ToOldStructTells ==
  ASSUME PlainStructs, ReadingInv, NEW types, WrittenAsTold(types), ToOldStruct
  PROVE  WrittenAsTold(types)'
<1>1. PICK item, target, chain, c :
        /\ item = Head(agenda) /\ target = VersionInMessage(writer, item, sctx)
        /\ chain = ToVersion(writer, item.type, item.version, target) /\ c = sctx.version
  OBVIOUS
<1>2. phase = "write" /\ agenda # <<>> /\ item.do = "struct" /\ target # item.version
      /\ UNCHANGED <<pair, writerVars, readerVars>>
  BY <1>1 DEF ToOldStruct, Doing
<1>3. PICK rest, letter : rest = Places(Itself, Tail(agenda)) /\ letter = Letter(types)
  OBVIOUS
<1>4. WriterFinds(types, letter, item, rest)
  BY <1>1, <1>2, <1>3, WriterFindsIt
<1>5. /\ StructInMessage(writer, sctx, item.type, item.version)
      /\ Fits(writer, item.type, c) /\ item.version \in ToSet(writer.private[item.type])
      /\ IsPlace(item.from) /\ StructSends(types, item)
      /\ target = VersionAt(writer, item.type, c)
      /\ target = getBestCompatInterfaceVersion(writer, item.type, item.version, c)
  BY <1>1, <1>2, <1>4, StructSendsIs
<1>6. Plain(writer, c)
  BY <1>1, <1>4 DEF WriterFinds
<1> DEFINE kept == item.kept \cap Handed(writer, item.type, chain)
           old == Struct(item.type, Last(chain), <<"temporary">>, item.from, kept)
<1>7. CASE phase' = "idle"
  BY <1>7, StopTells
<1>8. CASE Continue(<<old>>)
  <2>1. item.kept \subseteq Names(writer, item.type, item.version)
        /\ item.kept \cap HandedOn(writer, item.type, item.version, c) = Lasting(writer, item.type, c)
        /\ item.from \in DOMAIN types /\ types[item.from] = item.type
    BY <1>1, <1>5 DEF StructSends
  <2>2. Last(chain) = target /\ kept = Lasting(writer, item.type, c)
    BY <1>1, <1>2, <1>5, <1>6, <2>1, KeptDown
  <2>3. HandedOn(writer, item.type, target, c) = Names(writer, item.type, target)
        /\ Lasting(writer, item.type, c) \subseteq Names(writer, item.type, target)
    <3>1. Plain(writer, c) /\ Fits(writer, item.type, c) /\ target = VersionAt(writer, item.type, c)
      BY <1>5, <1>6
    <3> QED  BY <3>1, HandedOnAt
  <2>4. getBestCompatInterfaceVersion(writer, item.type, target, c) = target
        /\ target \in ToSet(writer.private[item.type])
    BY <1>5, <1>6, VersionAtIs
  <2>5. PICK x : x = old
    OBVIOUS
  <2>6. /\ x.do = "struct" /\ x.type = item.type /\ x.version = target /\ x.from = item.from
        /\ x.kept = kept
    BY <2>2, <2>5 DEF Struct
  <2>7. StructSends(types, x)
    BY <1>1, <1>5, <2>1, <2>2, <2>3, <2>4, <2>6 DEF StructSends
  <2>8. ItemSends(types, x)
    BY <2>6, <2>7 DEF ItemSends, MemberKinds
  <2>9. IsItem(writer, sctx, made, x)
    <3>1. StructInMessage(writer, sctx, item.type, target)
      <4>1. IsBuild(writer) /\ sctx \in Contexts
        BY <1>4 DEF WriterFinds
      <4>2. target # item.version => sctx.notMatch
        BY <1>1, <1>5, <4>1, MessageVersion
      <4> QED  BY <1>2, <1>5, <2>4, <4>2 DEF StructInMessage
    <3>2. IsPlace(<<"temporary">>)
      BY ObjectIsPlace
    <3> QED  BY <1>5, <2>2, <2>5, <3>1, <3>2, StructIsItem
  <2>10. ItemPlaces(Itself, x) = ItemPlaces(Itself, item)
         /\ Places(Itself, <<x>>) = ItemPlaces(Itself, x)
    BY <1>2, <2>6, PlacesOfStruct
  <2>11. IsSequence(<<x>>) /\ Elements(<<x>>) = {x}
    BY AgendaOfOne
  <2>12. Seen' = Seen /\ UNCHANGED <<pair, graph, sctx, out>>
    BY <1>2 DEF writerVars, Seen
  <2> HIDE DEF old
  <2>13. Continue(<<x>>)
    BY <1>8, <2>5
  <2> QED  BY <1>1, <1>2, <2>8, <2>9, <2>10, <2>11, <2>12, <2>13, WriterSplitsTold
<1> QED  BY <1>1, <1>7, <1>8 DEF ToOldStruct, Stop, NoMemory

(* A struct of the version of the message sends what lasts.                *)
LEMMA SendsWhatLasts ==
  ASSUME NEW c, c = sctx.version, Plain(writer, c), NEW types, NEW item, StructSends(types, item),
         Fits(writer, item.type, c), item.version = VersionAt(writer, item.type, c)
  PROVE  item.kept = Lasting(writer, item.type, c) /\ item.kept \subseteq Names(writer, item.type, item.version)
<1>1. HandedOn(writer, item.type, item.version, c) = Names(writer, item.type, item.version)
  BY HandedOnAt
<1>2. item.kept \subseteq Names(writer, item.type, item.version)
      /\ item.kept \cap HandedOn(writer, item.type, item.version, c) = Lasting(writer, item.type, c)
  BY DEF StructSends
<1> QED  BY <1>1, <1>2

(* What a letter says of a place of a type                                 *)
LEMMA LetterSays ==
  ASSUME NEW letter, NEW types, IsLetter(letter, types),
         NEW from, NEW T, types[from] = T, NEW c, c = sctx.version
  PROVE  /\ GoesAsBytes(letter, from)
              <=> SimplyAssigned(writer.layout[T][VersionAt(writer, T, c)], sctx)
         /\ PlacesAt(letter, from) = PlacesIn(MessageMembers(writer, T, c), from)
<1> USE DEF IsLetter
<1>1. LayoutAt(letter, from) = writer.layout[T][VersionAt(writer, T, c)]
  BY DEF LayoutAt
<1>2. PlacesAt(letter, from) = PlacesIn(MessageMembers(writer, T, c), from)
  BY <1>1 DEF PlacesAt, PlacesIn, MessageMembers
<1> QED  BY <1>1, <1>2 DEF GoesAsBytes

(* What a letter has in a place of a type                                  *)
LEMMA LetterHas ==
  ASSUME NEW letter, NEW types, IsLetter(letter, types),
         NEW from, NEW T, types[from] = T, NEW name, NEW c, c = sctx.version
  PROVE  /\ NumberSent(letter, from, name)
              = IF name \in Lasting(writer, T, c) THEN Part(from, name, 1) ELSE Null
         /\ PointerSent(letter, from, name)
              = IF name \in Lasting(writer, T, c) THEN At(graph, Part(from, name, 1)) ELSE Null
BY DEF NumberSent, PointerSent, Sends, IsLetter

(* The bytes of a struct tell of what it sends.                            *)
LEMMA WrittenBytesTell ==
  ASSUME NEW c, c = sctx.version, Plain(writer, c), NEW types, NEW item, StructSends(types, item),
         Fits(writer, item.type, c), item.version = VersionAt(writer, item.type, c),
         NEW letter, IsLetter(letter, types),
         NEW tokens, NEW i \in 1..Len(tokens), tokens[i] = AsBytes(writer, item)
  PROVE  BytesTellOf(letter, tokens, item.from, i)
<1>1. item.kept = Lasting(writer, item.type, c)
  BY SendsWhatLasts
<1>2. types[item.from] = item.type
  BY DEF StructSends
<1>3. PICK names, bytes : /\ names = Names(writer, item.type, item.version)
                          /\ bytes = [name \in names |-> Value(item, name)]
  OBVIOUS
<1>4. tokens[i][1] = "bytes" /\ tokens[i][2] = bytes
  BY <1>3 DEF AsBytes
<1>5. ASSUME NEW name \in names
      PROVE  bytes[name] = NumberSent(letter, item.from, name)
  <2>1. NumberSent(letter, item.from, name)
          = IF name \in Lasting(writer, item.type, c) THEN Part(item.from, name, 1) ELSE Null
    BY <1>2, LetterHas
  <2>2. bytes[name] = IF name \in item.kept THEN Part(item.from, name, 1) ELSE Null
    BY <1>3 DEF Value
  <2> QED  BY <1>1, <2>1, <2>2
<1>6. DOMAIN bytes = names
  BY <1>3
<1> QED  BY <1>4, <1>5, <1>6 DEF BytesTellOf

(* serialize of a struct tells of its members, or of all its numbers.      *)
LEMMA SerializeStructTells ==
  ASSUME PlainStructs, ReadingInv, NEW types, WrittenAsTold(types), SerializeStruct
  PROVE  WrittenAsTold(types)'
<1>1. PICK item, c : item = Head(agenda) /\ c = sctx.version
  OBVIOUS
<1>2. phase = "write" /\ agenda # <<>> /\ item.do = "struct"
      /\ VersionInMessage(writer, item, sctx) = item.version
      /\ UNCHANGED <<pair, graph, sctx, pointersMap, readerVars>>
  BY <1>1 DEF SerializeStruct, Doing
<1>3. PICK rest, letter : rest = Places(Itself, Tail(agenda)) /\ letter = Letter(types)
  OBVIOUS
<1>4. WriterFinds(types, letter, item, rest)
  BY <1>1, <1>2, <1>3, WriterFindsIt
<1>5. /\ Fits(writer, item.type, c) /\ item.version \in ToSet(writer.private[item.type])
      /\ IsPlace(item.at) /\ IsPlace(item.from) /\ StructSends(types, item)
      /\ Sent(Itself, item.from) = item.from
      /\ item.version = VersionAt(writer, item.type, c)
  BY <1>1, <1>2, <1>4, StructSendsIs
<1>6. /\ Plain(writer, c) /\ IsSequence(rest) /\ IsSequence(out) /\ Len(out) \in Nat
      /\ IsBuild(writer) /\ sctx \in Contexts /\ IsItem(writer, sctx, made, item)
      /\ IsLetter(letter, types)
      /\ Traces(letter, out, FromRoot,
                Tracing(Then(ItemPlaces(Itself, item), rest), Len(out), Seen))
  BY <1>1, <1>4 DEF WriterFinds
<1>7. types[item.from] = item.type /\ item.from \in DOMAIN types
  BY <1>5 DEF StructSends
<1>8. PICK x : x = Tracing(First(StructAt(item.from), rest), Len(out), Seen)
  OBVIOUS
<1>9. Traces(letter, out, FromRoot, x) /\ FacingWith(x, StructAt(item.from), rest, Len(out), Seen)
  <2>1. Then(ItemPlaces(Itself, item), rest) = First(StructAt(item.from), rest)
    <3>1. ItemPlaces(Itself, item) = <<StructAt(item.from)>>
      BY <1>2, <1>5, PlacesOfStruct
    <3> QED  BY <1>6, <3>1, ThenIs
  <2> QED  BY <1>6, <1>8, <2>1, TracingFaces
<1>10. Seen' = Seen
  BY <1>2 DEF Seen
<1>11. CASE phase' = "idle"
  BY <1>11, StopTells
<1>12. CASE SimplyAssigned(Layout(writer, item), sctx) /\ Write(<<AsBytes(writer, item)>>)
            /\ Continue(<<>>)
  <2>1. PICK token : token = AsBytes(writer, item)
    OBVIOUS
  <2>2. Joins(out', out, <<token>>)
    BY <1>12, <2>1 DEF Write, Joins
  <2>3. Len(out') = Len(out) + 1 /\ out'[Len(out) + 1] = token
    BY <1>6, <2>2, AppendedOne
  <2>4. Len(out) + 1 \in 1..Len(out')
    BY <1>6, <2>3
  <2>5. BytesTellOf(letter, out', item.from, Len(out) + 1)
    BY <1>1, <1>5, <1>6, <2>1, <2>3, <2>4, WrittenBytesTell
  <2>6. GoesAsBytes(letter, item.from)
    <3>1. SimplyAssigned(writer.layout[item.type][VersionAt(writer, item.type, c)], sctx)
      BY <1>5, <1>12 DEF Layout
    <3>2. IsLetter(letter, types) /\ types[item.from] = item.type /\ c = sctx.version
      BY <1>1, <1>6, <1>7
    <3> QED  BY <3>1, <3>2, LetterSays
  <2>7. Tells(letter, out', x) /\ Traced(letter, out', x) = Tracing(rest, Len(out) + 1, Seen)
    BY <1>6, <1>9, <2>5, <2>6, BytesTell
  <2>8. Traces(letter, out', FromRoot, x)
    <3>1. IsSequence(<<token>>)
      BY AgendaOfOne
    <3> QED  BY <1>6, <1>9, <2>2, <3>1, TracesKept DEF Joins
  <2>9. x.todo # <<>>
    BY <1>9 DEF FacingWith, Facing
  <2>10. Traces(letter, out', FromRoot, Tracing(rest, Len(out'), Seen'))
    BY <1>10, <2>3, <2>7, <2>8, <2>9, TracesOn
  <2> QED  BY <1>2, <1>3, <1>6, <1>12, <2>10, WriterIsDoneTold
<1>13. CASE ~SimplyAssigned(Layout(writer, item), sctx) /\ Continue(MembersOf(writer, item))
            /\ UNCHANGED out
  <2>1. PICK items : items = MembersOf(writer, item)
    OBVIOUS
  <2>2. item.kept = Lasting(writer, item.type, c)
    BY <1>1, <1>5, <1>6, SendsWhatLasts
  <2>3. IsSequence(items) /\ \A y \in Elements(items) : IsItem(writer, sctx, made, y)
    BY <1>2, <1>6, <2>1, MembersAreItems
  <2>4. ASSUME NEW y \in Elements(items)
        PROVE  ItemSends(types, y)
    <3>1. PICK members : members = MessageMembers(writer, item.type, c)
      OBVIOUS
    <3>2. IsSequence(members) /\ ToSet(members) = Elements(members)
          /\ \A m \in ToSet(members) : m.kind \in MemberKinds
      BY <1>5, <1>6, <3>1, MessageMembersAre
    <3>3. items = [i \in DOMAIN members |->
              [do |-> members[i].kind, member |-> members[i],
               at |-> item.at, from |-> item.from, kept |-> item.kept]]
      BY <1>5, <2>1, <3>1 DEF MembersOf, Layout, MessageMembers
    <3>4. PICK i \in 1..Len(items) : y = items[i]
      BY DEF Elements
    <3>5. DOMAIN members = 1..Len(members) /\ Len(members) \in Nat
      BY <3>2, SequenceOfElements DEF IsSequence
    <3>6. Len(items) = Len(members)
      BY <3>3, <3>5
    <3>7. members[i] \in ToSet(members)
      BY <3>2, <3>4, <3>6 DEF Elements
    <3>8. /\ y.do = members[i].kind /\ y.member = members[i] /\ y.from = item.from
          /\ y.kept = item.kept
      BY <3>3, <3>4, <3>5, <3>6
    <3>9. y.do \in MemberKinds
      BY <3>2, <3>7, <3>8
    <3>10. CanHold(writer, item.type)
      BY <1>1, <1>5 DEF Fits, CanHold
    <3>11. MemberSends(types, y)
      BY <1>1, <1>7, <2>2, <3>1, <3>7, <3>8, <3>10 DEF MemberSends
    <3> QED  BY <3>9, <3>11 DEF ItemSends, MemberKinds
  <2>5. Places(Itself, items) = PlacesIn(MessageMembers(writer, item.type, c), item.from)
    <3>1. item.type \in DOMAIN writer.private
      BY <1>5 DEF Fits
    <3>2. Places(Itself, MembersOf(writer, item))
            = PlacesIn(writer.layout[item.type][item.version].members, Sent(Itself, item.from))
      BY <1>5, <1>6, <3>1, PlacesOfMembers
    <3> QED  BY <1>5, <2>1, <3>2 DEF MessageMembers
  <2>6. ~GoesAsBytes(letter, item.from)
        /\ PlacesAt(letter, item.from) = PlacesIn(MessageMembers(writer, item.type, c), item.from)
    <3>1. ~SimplyAssigned(writer.layout[item.type][VersionAt(writer, item.type, c)], sctx)
      BY <1>5, <1>13 DEF Layout
    <3>2. IsLetter(letter, types) /\ types[item.from] = item.type /\ c = sctx.version
      BY <1>1, <1>6, <1>7
    <3> QED  BY <3>1, <3>2, LetterSays
  <2>7. Tells(letter, out, x)
        /\ Traced(letter, out, x) = Tracing(PlacesAt(letter, item.from) \o rest, Len(out), Seen)
    BY <1>9, <2>6, MembersTell
  <2>8. x.todo # <<>>
    BY <1>9 DEF FacingWith, Facing
  <2>9. Traces(letter, out, FromRoot, Tracing(Then(Places(Itself, items), rest), Len(out), Seen))
    BY <1>9, <2>5, <2>6, <2>7, <2>8, TracesOn DEF Then
  <2>10. agenda' = items \o Tail(agenda) /\ phase' = phase /\ out' = out
    BY <1>13, <2>1 DEF Continue
  <2> QED  BY <1>2, <1>3, <1>10, <2>3, <2>4, <2>9, <2>10, WriterTellsOn
<1> QED  BY <1>1, <1>11, <1>12, <1>13 DEF SerializeStruct, Stop

(* What a whole struct is, and a part of one                               *)
LEMMA WholeIs ==
  ASSUME NEW b, NEW T, NEW v, NEW at, NEW from, NEW x, x = Whole(b, T, v, at, from)
  PROVE  /\ x.do = "struct" /\ x.type = T /\ x.version = v /\ x.at = at /\ x.from = from
         /\ x.kept = Names(b, T, v)
BY DEF Whole, Struct

(* What a part of a struct is as an item                                   *)
LEMMA SubStructIs ==
  ASSUME NEW b, NEW item, NEW j, NEW m, m = item.member, NEW x, x = SubStruct(b, item, j)
  PROVE  /\ x.do = "struct" /\ x.type = m.type /\ x.version = m.version
         /\ x.at = Part(item.at, m.name, j) /\ x.from = Part(item.from, m.name, j)
         /\ x.kept = Names(b, m.type, m.version)
BY WholeIs DEF SubStruct

(* A whole struct of a version that hands on what lasts sends what lasts.  *)
LEMMA WholeSends ==
  ASSUME NEW types, NEW x, NEW from \in DOMAIN types, NEW T, NEW v, NEW c, c = sctx.version,
         types[from] = T, x.do = "struct", x.type = T, x.version = v, x.from = from,
         x.kept = Names(writer, T, v),
         getBestCompatInterfaceVersion(writer, T, v, c) = VersionAt(writer, T, c),
         HandedOn(writer, T, v, c) = Lasting(writer, T, c)
  PROVE  ItemSends(types, x)
<1>1. HandedOn(writer, T, v, c) \subseteq Names(writer, T, v)
  BY DEF HandedOn
<1>2. x.kept \cap HandedOn(writer, T, v, c) = Lasting(writer, T, c)
  BY <1>1
<1>3. StructSends(types, x)
  BY <1>2 DEF StructSends
<1> QED  BY <1>3 DEF ItemSends, MemberKinds

(* What a member on the writer's agenda is                                 *)
LEMMA MemberSendsIs ==
  ASSUME NEW types, NEW letter, NEW item, NEW rest, WriterFinds(types, letter, item, rest),
         TypedBy(writer, graph, types), item.do \in MemberKinds, NEW c, c = sctx.version,
         NEW m, m = item.member, NEW T, T = types[item.from]
  PROVE  /\ IsPlace(item.at) /\ IsPlace(item.from) /\ item.from[1] \in Objects
         /\ Sent(Itself, item.from) = item.from /\ IsPlace(Itself[item.from[1]])
         /\ item.from \in DOMAIN types /\ Fits(writer, T, c) /\ item.do = m.kind
         /\ m \in ToSet(MessageMembers(writer, T, c))
         /\ m.name \in item.kept <=> m.name \in Lasting(writer, T, c)
         /\ MemberInMessage(writer, sctx, m)
<1>1. IsItem(writer, sctx, made, item) /\ ItemSends(types, item)
      /\ (item.do # "element" => item.from[1] \in Objects)
  BY DEF WriterFinds
<1>2. MemberSends(types, item) /\ item.from[1] \in Objects
  BY <1>1 DEF ItemSends, MemberKinds
<1>3. item.do = m.kind /\ IsPlace(item.at) /\ IsPlace(item.from) /\ MemberInMessage(writer, sctx, m)
  BY <1>1, ItemIsMember
<1>4. Sent(Itself, item.from) = item.from /\ IsPlace(Itself[item.from[1]])
  BY <1>2, <1>3, SentItself
<1>5. /\ item.from \in DOMAIN types /\ CanHold(writer, T)
      /\ m \in ToSet(MessageMembers(writer, T, c))
      /\ m.name \in item.kept <=> m.name \in Lasting(writer, T, c)
  BY <1>2 DEF MemberSends
<1> QED  BY <1>2, <1>3, <1>4, <1>5 DEF CanHold, Fits

(* The parts of a member go into the message with what lasts of them.      *)
LEMMA SubStructSends ==
  ASSUME NEW types, NEW letter, NEW item, NEW rest, WriterFinds(types, letter, item, rest),
         TypedBy(writer, graph, types), item.do \in {"member", "array"}, NEW c, c = sctx.version,
         NEW m, m = item.member, NEW j \in 1..m.n, NEW x, x = SubStruct(writer, item, j)
  PROVE  /\ ItemSends(types, x) /\ StructSends(types, x) /\ Fits(writer, m.type, c)
         /\ x.do = "struct" /\ x.type = m.type /\ x.version = m.version
         /\ x.from = Part(item.from, m.name, j)
         /\ types[x.from] = m.type
         /\ m.version \in ToSet(writer.private[m.type])
         /\ getBestCompatInterfaceVersion(writer, m.type, m.version, c) = VersionAt(writer, m.type, c)
<1>1. PICK T : T = types[item.from]
  OBVIOUS
<1>2. item.do \in MemberKinds
  BY DEF MemberKinds
<1>3. /\ item.from \in DOMAIN types /\ Fits(writer, T, c) /\ item.do = m.kind
      /\ m \in ToSet(MessageMembers(writer, T, c))
  BY <1>1, <1>2, MemberSendsIs
<1>4. Plain(writer, c)
  BY DEF WriterFinds
<1>5. m.kind \in {"member", "array"}
  BY <1>3
<1>6. Fits(writer, m.type, c) /\ m.version \in ToSet(writer.private[m.type])
  <2>1. m.kind # "number"
    BY <1>5
  <2> QED  BY <1>3, <1>4, <1>5, <2>1, MessageMembersAre
<1>7. /\ getBestCompatInterfaceVersion(writer, m.type, m.version, c) = VersionAt(writer, m.type, c)
      /\ HandedOn(writer, m.type, m.version, c) = Lasting(writer, m.type, c)
  BY <1>3, <1>4, <1>5, PartLasts
<1>8. Part(item.from, m.name, j) \in DOMAIN types /\ types[Part(item.from, m.name, j)] = m.type
  <2>1. PICK target : target = At(graph, Part(item.from, m.name, 1))
    OBVIOUS
  <2> QED  BY <1>1, <1>3, <1>4, <1>5, <2>1, PartIsTyped
<1>9. /\ x.do = "struct" /\ x.type = m.type /\ x.version = m.version
      /\ x.from = Part(item.from, m.name, j) /\ x.kept = Names(writer, m.type, m.version)
  BY SubStructIs
<1>10. ItemSends(types, x)
  BY <1>7, <1>8, <1>9, WholeSends
<1>11. StructSends(types, x)
  BY <1>9, <1>10 DEF ItemSends
<1> QED  BY <1>6, <1>7, <1>8, <1>9, <1>10, <1>11

(* serialize of a member tells of the part it is.                          *)
LEMMA SerializeMemberTells ==
  ASSUME PlainStructs, ReadingInv, NEW types, TypedBy(writer, graph, types), WrittenAsTold(types),
         SerializeMember
  PROVE  WrittenAsTold(types)'
<1>1. PICK item, c, x : /\ item = Head(agenda) /\ c = sctx.version
                        /\ x = SubStruct(writer, item, 1)
  OBVIOUS
<1>2. /\ phase = "write" /\ agenda # <<>> /\ item.do = "member" /\ Continue(<<x>>)
      /\ UNCHANGED <<pair, writerVars, readerVars>>
  BY <1>1 DEF SerializeMember, Doing
<1>3. PICK rest, letter : rest = Places(Itself, Tail(agenda)) /\ letter = Letter(types)
  OBVIOUS
<1>4. WriterFinds(types, letter, item, rest)
  BY <1>1, <1>2, <1>3, WriterFindsIt
<1>5. IsItem(writer, sctx, made, item) /\ Plain(writer, c)
  BY <1>1, <1>4 DEF WriterFinds
<1>6. item.do \in MemberKinds /\ item.do \in {"member", "array"}
  BY <1>2 DEF MemberKinds
<1>7. /\ IsPlace(Itself[item.from[1]]) /\ item.do = item.member.kind
      /\ Fits(writer, types[item.from], c)
      /\ item.member \in ToSet(MessageMembers(writer, types[item.from], c))
  BY <1>1, <1>4, <1>6, MemberSendsIs
<1>8. 1 \in 1..item.member.n
  <2>1. PlainLayout(writer.layout[types[item.from]][VersionAt(writer, types[item.from], c)])
    BY <1>5, <1>7, MessageMembersAre
  <2>2. item.member.n = 1
    BY <1>2, <1>7, <2>1 DEF PlainLayout, MessageMembers
  <2> QED  BY <2>2
<1>9. ItemSends(types, x)
  BY <1>1, <1>4, <1>6, <1>8, SubStructSends
<1>10. IsItem(writer, sctx, made, x)
  BY <1>1, <1>5, <1>6, SubStructIsItem
<1>11. Places(Itself, <<x>>) = ItemPlaces(Itself, item)
  BY <1>1, <1>2, <1>5, <1>7, PlacesOfPart
<1>12. IsSequence(<<x>>) /\ Elements(<<x>>) = {x}
  BY AgendaOfOne
<1>13. Seen' = Seen /\ UNCHANGED <<pair, graph, sctx, out>>
  BY <1>2 DEF writerVars, Seen
<1> QED  BY <1>1, <1>2, <1>9, <1>10, <1>11, <1>12, <1>13, WriterSplitsTold

(* serialize of a number tells of it.                                      *)
LEMMA SerializeNumberTells ==
  ASSUME PlainStructs, ReadingInv, NEW types, TypedBy(writer, graph, types), WrittenAsTold(types),
         SerializeNumber
  PROVE  WrittenAsTold(types)'
<1>1. PICK item, c, m, token : /\ item = Head(agenda) /\ c = sctx.version /\ m = item.member
                               /\ token = <<"number", Value(item, m.name)>>
  OBVIOUS
<1>2. /\ phase = "write" /\ agenda # <<>> /\ item.do = "number" /\ Write(<<token>>)
      /\ Continue(<<>>) /\ UNCHANGED <<pair, graph, sctx, pointersMap, readerVars>>
  BY <1>1 DEF SerializeNumber, Doing
<1>3. PICK rest, letter : rest = Places(Itself, Tail(agenda)) /\ letter = Letter(types)
  OBVIOUS
<1>4. WriterFinds(types, letter, item, rest)
  BY <1>1, <1>2, <1>3, WriterFindsIt
<1>5. /\ IsSequence(rest) /\ IsSequence(out) /\ Len(out) \in Nat /\ IsLetter(letter, types)
      /\ Traces(letter, out, FromRoot,
                Tracing(Then(ItemPlaces(Itself, item), rest), Len(out), Seen))
  BY <1>4 DEF WriterFinds
<1>6. item.do \in MemberKinds
  BY <1>2 DEF MemberKinds
<1>7. /\ Sent(Itself, item.from) = item.from /\ item.do = m.kind
      /\ m.name \in item.kept <=> m.name \in Lasting(writer, types[item.from], c)
  BY <1>1, <1>4, <1>6, MemberSendsIs
<1>8. PICK x : x = Tracing(First(NumberAt(item.from, m.name), rest), Len(out), Seen)
  OBVIOUS
<1>9. Traces(letter, out, FromRoot, x)
      /\ FacingWith(x, NumberAt(item.from, m.name), rest, Len(out), Seen)
  <2>1. ItemPlaces(Itself, item) = <<NumberAt(item.from, m.name)>>
    BY <1>1, <1>2, <1>6, <1>7 DEF ItemPlaces, MemberPlaces
  <2>2. Then(ItemPlaces(Itself, item), rest) = First(NumberAt(item.from, m.name), rest)
    BY <1>5, <2>1, ThenIs
  <2> QED  BY <1>5, <1>8, <2>2, TracingFaces
<1>10. Joins(out', out, <<token>>)
  BY <1>2 DEF Write, Joins
<1>11. Len(out') = Len(out) + 1 /\ out'[Len(out) + 1] = token
  BY <1>5, <1>10, AppendedOne
<1>12. token[1] = "number" /\ token[2] = NumberSent(letter, item.from, m.name)
  <2>1. NumberSent(letter, item.from, m.name)
          = IF m.name \in Lasting(writer, types[item.from], c)
            THEN Part(item.from, m.name, 1) ELSE Null
    BY <1>1, <1>5, LetterHas
  <2> QED  BY <1>1, <1>7, <2>1 DEF Value
<1>13. Len(out) \in 0..(Len(out') - 1)
  BY <1>5, <1>11
<1>14. Tells(letter, out', x) /\ Traced(letter, out', x) = Tracing(rest, Len(out) + 1, Seen)
  BY <1>9, <1>11, <1>12, <1>13, NumberTells
<1>15. Traces(letter, out', FromRoot, x)
  <2>1. IsSequence(<<token>>)
    BY AgendaOfOne
  <2> QED  BY <1>5, <1>9, <1>10, <2>1, TracesKept DEF Joins
<1>16. x.todo # <<>>
  BY <1>9 DEF FacingWith, Facing
<1>17. Traces(letter, out', FromRoot, Tracing(rest, Len(out'), Seen'))
  <2>1. Seen' = Seen
    BY <1>2 DEF Seen
  <2> QED  BY <1>11, <1>14, <1>15, <1>16, <2>1, TracesOn
<1> QED  BY <1>2, <1>3, <1>5, <1>17, WriterIsDoneTold

(* serialize of an array tells of its elements one by one.                 *)
LEMMA SerializeArrayTells ==
  ASSUME PlainStructs, ReadingInv, NEW types, TypedBy(writer, graph, types), WrittenAsTold(types),
         SerializeArray
  PROVE  WrittenAsTold(types)'
<1>1. PICK item, c, m, n : item = Head(agenda) /\ c = sctx.version /\ m = item.member /\ n = m.n
  OBVIOUS
<1>2. PICK elements : elements = [j \in 1..n |-> SubStruct(writer, item, j)]
  OBVIOUS
<1>3. /\ phase = "write" /\ agenda # <<>> /\ item.do = "array"
      /\ UNCHANGED <<pair, graph, sctx, pointersMap, readerVars>>
      /\ \/ /\ SimplyAssigned(writer.layout[m.type][m.version], sctx)
            /\ Write([j \in 1..n |-> AsBytes(writer, elements[j])]) /\ Continue(<<>>)
         \/ /\ Continue(FlattenSeq(OneByOne(writer, item))) /\ UNCHANGED out
  <2>1. elements = [j \in 1..m.n |-> SubStruct(writer, item, j)]
    BY <1>1, <1>2
  <2>2. OneByOne(writer, item)
          = [j \in 1..m.n |-> <<[do |-> "element", at |-> elements[j].at], elements[j]>>]
    BY <1>1, <2>1 DEF OneByOne
  <2> QED  BY <1>1, <2>1, <2>2 DEF SerializeArray, Doing
<1>4. PICK rest, letter : rest = Places(Itself, Tail(agenda)) /\ letter = Letter(types)
  OBVIOUS
<1>5. WriterFinds(types, letter, item, rest)
  BY <1>1, <1>3, <1>4, WriterFindsIt
<1>6. /\ IsSequence(rest) /\ IsSequence(out) /\ Len(out) \in Nat /\ IsLetter(letter, types)
      /\ IsBuild(writer) /\ sctx \in Contexts /\ IsItem(writer, sctx, made, item)
      /\ Plain(writer, c)
      /\ Traces(letter, out, FromRoot,
                Tracing(Then(ItemPlaces(Itself, item), rest), Len(out), Seen))
  BY <1>1, <1>5 DEF WriterFinds
<1>7. item.do \in MemberKinds /\ item.do \in {"member", "array"}
  BY <1>3 DEF MemberKinds
<1>8. /\ Sent(Itself, item.from) = item.from /\ IsPlace(Itself[item.from[1]])
      /\ IsPlace(item.from)
  BY <1>1, <1>5, <1>7, MemberSendsIs
<1>9. n \in Nat /\ n >= 1 /\ IsPlace(item.at)
  BY <1>1, <1>3, <1>6, ArrayIs
<1>10. \A j \in 1..n : /\ ItemSends(types, elements[j]) /\ StructSends(types, elements[j])
                       /\ Fits(writer, m.type, c)
                       /\ elements[j].do = "struct" /\ elements[j].type = m.type
                       /\ elements[j].version = m.version
                       /\ elements[j].from = Part(item.from, m.name, j)
                       /\ types[elements[j].from] = m.type
                       /\ m.version \in ToSet(writer.private[m.type])
                       /\ getBestCompatInterfaceVersion(writer, m.type, m.version, c)
                            = VersionAt(writer, m.type, c)
  <2> TAKE j \in 1..n
  <2>1. elements[j] = SubStruct(writer, item, j) /\ j \in 1..m.n
    BY <1>1, <1>2
  <2> QED  BY <1>1, <1>5, <1>7, <2>1, SubStructSends
<1>11. Seen' = Seen
  BY <1>3 DEF Seen
<1>12. ItemPlaces(Itself, item)
         = [j \in 1..n |-> StructAt(Part(item.from, m.name, j))]
  BY <1>1, <1>3, <1>6, <1>8, PlacesOfElements
<1>13. CASE /\ SimplyAssigned(writer.layout[m.type][m.version], sctx)
            /\ Write([j \in 1..n |-> AsBytes(writer, elements[j])]) /\ Continue(<<>>)
  <2>1. PICK tokens : tokens = [j \in 1..n |-> AsBytes(writer, elements[j])]
    OBVIOUS
  <2>2. IsSequence(tokens) /\ Len(tokens) = n
    BY <1>9, <2>1 DEF IsSequence
  <2>3. Joins(out', out, tokens)
    BY <1>13, <2>1 DEF Write, Joins
  <2>4. /\ Len(out') = Len(out) + n
        /\ \A j \in 1..n : out'[Len(out) + j] = AsBytes(writer, elements[j])
    <3>1. \A j \in 1..n : tokens[j] = AsBytes(writer, elements[j])
      BY <2>1
    <3>2. Len(out') = Len(out) + n /\ \A j \in 1..n : out'[Len(out) + j] = tokens[j]
      BY <1>6, <2>2, <2>3, Appended
    <3> QED  BY <3>1, <3>2
  <2>5. Fits(writer, m.type, c) /\ m.version = VersionAt(writer, m.type, c)
    <3>1. 1 \in 1..n
      BY <1>9
    <3>2. /\ Fits(writer, m.type, c) /\ m.version \in ToSet(writer.private[m.type])
          /\ getBestCompatInterfaceVersion(writer, m.type, m.version, c)
                            = VersionAt(writer, m.type, c)
      BY <1>10, <3>1
    <3>3. getBestCompatInterfaceVersion(writer, m.type, m.version, sctx.version) = m.version
      BY <1>6, <1>13, <3>2, AssignedIsBest DEF Fits
    <3> QED  BY <1>1, <3>2, <3>3
  <2>6. \A j \in 1..n : /\ GoesAsBytes(letter, Part(item.from, m.name, j))
                        /\ BytesTellOf(letter, out', Part(item.from, m.name, j), Len(out) + j)
    <3> TAKE j \in 1..n
    <3>1. PICK e : e = elements[j]
      OBVIOUS
    <3>2. /\ StructSends(types, e) /\ e.from = Part(item.from, m.name, j)
          /\ e.type = m.type /\ e.version = m.version /\ types[e.from] = m.type
      BY <1>10, <3>1
    <3>3. GoesAsBytes(letter, e.from)
      <4>1. SimplyAssigned(writer.layout[m.type][VersionAt(writer, m.type, c)], sctx)
        BY <1>13, <2>5
      <4>2. IsLetter(letter, types) /\ types[e.from] = m.type /\ c = sctx.version
        BY <1>1, <1>6, <3>2
      <4> QED  BY <4>1, <4>2, LetterSays
    <3>4. Len(out) + j \in 1..Len(out') /\ out'[Len(out) + j] = AsBytes(writer, e)
      <4>1. Len(out) + j \in 1..Len(out')
        BY <1>6, <1>9, <2>4
      <4> QED  BY <2>4, <3>1, <4>1
    <3>5. Fits(writer, e.type, c) /\ e.version = VersionAt(writer, e.type, c)
      BY <2>5, <3>2
    <3>6. BytesTellOf(letter, out', e.from, Len(out) + j)
      BY <1>1, <1>6, <3>2, <3>4, <3>5, WrittenBytesTell
    <3> QED  BY <3>2, <3>3, <3>6
  <2>7. Traces(letter, out', FromRoot, Tracing(Row(item.from, m.name, 0, n, rest), Len(out), Seen))
    <3>1. Then(ItemPlaces(Itself, item), rest) = Row(item.from, m.name, 0, n, rest)
      <4>1. Row(item.from, m.name, 0, n, rest)
              = [j \in 1..n |-> StructAt(Part(item.from, m.name, j))] \o rest
        BY <1>9, RowStarts
      <4> QED  BY <1>12, <4>1 DEF Then
    <3> QED  BY <1>6, <2>2, <2>3, <3>1, TracesKept DEF Joins
  <2>8. Traces(letter, out', FromRoot, Tracing(rest, Len(out'), Seen'))
    BY <1>6, <1>9, <1>11, <2>4, <2>6, <2>7, TracesOverArray
  <2> QED  BY <1>3, <1>4, <1>6, <1>13, <2>8, WriterIsDoneTold
<1>14. CASE Continue(FlattenSeq(OneByOne(writer, item))) /\ UNCHANGED out
  <2>1. PICK items : items = FlattenSeq(OneByOne(writer, item))
    OBVIOUS
  <2>2. IsSequence(items) /\ \A x \in Elements(items) : IsItem(writer, sctx, made, x)
    BY <1>3, <1>6, <2>1, ElementsAreItems
  <2>3. \A x \in Elements(items) : ItemSends(types, x)
    <3> DEFINE Right == {OneByOne(writer, item)[j][1] : j \in 1..n}
                          \cup {OneByOne(writer, item)[j][2] : j \in 1..n}
    <3>2. Elements(items) \subseteq Right
      <4>1. IsSequence(OneByOne(writer, item)) /\ Len(OneByOne(writer, item)) = n
        BY <1>1, <1>9 DEF OneByOne, IsSequence
      <4>2. \A j \in 1..n : /\ IsSequence(OneByOne(writer, item)[j])
                            /\ Elements(OneByOne(writer, item)[j]) \subseteq Right
        <5> TAKE j \in 1..n
        <5>1. PICK x, y : OneByOne(writer, item)[j] = <<x, y>>
          BY <1>1 DEF OneByOne
        <5>2. <<x, y>>[1] = x /\ <<x, y>>[2] = y /\ IsSequence(<<x, y>>) /\ Len(<<x, y>>) = 2
          BY DEF IsSequence
        <5>3. \A i \in 1..2 : i = 1 \/ i = 2
          OBVIOUS
        <5>4. Elements(<<x, y>>) \subseteq {x, y}
          BY <5>2, <5>3 DEF Elements
        <5> QED  BY <5>1, <5>2, <5>4
      <4> HIDE DEF Right
      <4> QED  BY <2>1, <4>1, <4>2, Flattened
    <3>3. ASSUME NEW j \in 1..n
          PROVE  /\ ItemSends(types, OneByOne(writer, item)[j][1])
                 /\ ItemSends(types, OneByOne(writer, item)[j][2])
      <4>1. OneByOne(writer, item)[j]
              = <<[do |-> "element", at |-> SubStruct(writer, item, j).at],
                  SubStruct(writer, item, j)>>
        BY <1>1 DEF OneByOne
      <4>2. PICK x : x = OneByOne(writer, item)[j][1]
        OBVIOUS
      <4>3. x.do = "element" /\ x.at = Part(item.at, m.name, j)
        BY <1>1, <4>1, <4>2, SubStructIs
      <4>4. Len(x.at) > 1
        BY <1>9, <4>3, PartIs
      <4>5. ItemSends(types, x)
        BY <4>3, <4>4 DEF ItemSends, MemberKinds
      <4>6. ItemSends(types, elements[j]) /\ elements[j] = SubStruct(writer, item, j)
        BY <1>2, <1>10
      <4> QED  BY <4>1, <4>2, <4>5, <4>6
    <3> QED  BY <3>2, <3>3
  <2>4. Places(Itself, items) = ItemPlaces(Itself, item)
    BY <1>3, <1>6, <1>8, <2>1, PlacesOfElements
  <2>5. UNCHANGED <<pair, graph, sctx, out>> /\ Continue(items)
    BY <1>3, <1>14, <2>1
  <2> QED  BY <1>1, <1>3, <1>11, <2>2, <2>3, <2>4, <2>5, WriterSplitsTold
<1> QED  BY <1>3, <1>13, <1>14

(* What is numbered of an element tells of nothing.                        *)
LEMMA SerializeElementTells ==
  ASSUME PlainStructs, ReadingInv, NEW types, WrittenAsTold(types), SerializeElement
  PROVE  WrittenAsTold(types)'
<1>1. PICK item : item = Head(agenda)
  OBVIOUS
<1>2. /\ phase = "write" /\ agenda # <<>> /\ item.do = "element" /\ Continue(<<>>)
      /\ pointersMap' = pointersMap \/ pointersMap' = With(pointersMap, item.at, Len(out))
      /\ UNCHANGED <<pair, graph, sctx, out, readerVars>>
  BY <1>1 DEF SerializeElement, Doing
<1>3. PICK rest, letter : rest = Places(Itself, Tail(agenda)) /\ letter = Letter(types)
  OBVIOUS
<1>4. WriterFinds(types, letter, item, rest)
  BY <1>1, <1>2, <1>3, WriterFindsIt
<1>5. Len(item.at) # 1
  <2>1. IsItem(writer, sctx, made, item) /\ ItemSends(types, item)
    BY <1>4 DEF WriterFinds
  <2>2. IsPlace(item.at)
    BY <1>2, <2>1, ItemIsElement
  <2> QED  BY <1>2, <2>1, <2>2 DEF ItemSends, IsPlace, IsSequence
<1>6. Seen' = Seen
  <2>1. \A q : Len(q) = 1 => q # item.at
    BY <1>5
  <2>2. {q \in DOMAIN pointersMap' : Len(q) = 1} = {q \in DOMAIN pointersMap : Len(q) = 1}
    BY <1>2, <2>1 DEF With
  <2>3. \A q \in {q \in DOMAIN pointersMap : Len(q) = 1} : pointersMap'[q] = pointersMap[q]
    BY <1>2, <2>1 DEF With
  <2> QED  BY <2>2, <2>3 DEF Seen
<1>7. PICK none : none = <<>>
  OBVIOUS
<1>8. IsSequence(none) /\ Elements(none) = {}
  BY <1>7, AgendaOfOne
<1>9. Places(Itself, none) = ItemPlaces(Itself, item)
  BY <1>2, <1>7, PlacesOfNone DEF ItemPlaces, MemberKinds
<1>10. Continue(none)
  BY <1>2, <1>7
<1> QED  BY <1>1, <1>2, <1>6, <1>8, <1>9, <1>10, WriterSplitsTold

(* The end of the writing tells of nothing.                                *)
LEMMA EndOfWritingTells ==
  ASSUME NEW types, WrittenAsTold(types), EndOfWriting
  PROVE  WrittenAsTold(types)'
<1>1. /\ phase = "write" /\ phase' = "written" /\ UNCHANGED <<pair, agenda, writerVars, readerVars>>
  BY DEF EndOfWriting
<1>2. UNCHANGED <<pair, agenda, graph, sctx, out, pointersMap, writer>>
  BY <1>1 DEF writerVars, writer
<1>3. /\ Letter(types)' = Letter(types) /\ FromRoot' = FromRoot /\ Seen' = Seen
      /\ Places(Itself, agenda)' = Places(Itself, agenda)
  BY <1>2 DEF Letter, FromRoot, Seen
<1>4. \A item : ItemSends(types, item) => ItemSends(types, item)'
  BY <1>2 DEF ItemSends, StructSends, MemberSends, CanHold
<1> QED  BY <1>1, <1>2, <1>3, <1>4 DEF WrittenAsTold

(* What addPointerToMap comes to                                           *)
LEMMA AddedIs ==
  ASSUME NEW p, NEW added, added = addPointerToMap(p)
  PROVE  /\ p = Null => added.prefix = 0 /\ ~added.new
         /\ p # Null /\ p \in DOMAIN pointersMap => added.prefix = pointersMap[p] /\ ~added.new
         /\ p # Null /\ p \notin DOMAIN pointersMap => added.prefix = 1 /\ added.new
BY DEF addPointerToMap

(* A pointer of the writer that is not null                                *)
LEMMA PointerLeads ==
  ASSUME PlainGraph, ReadingInv, NEW item, NEW p, p = Pointee(item), p # Null
  PROVE  /\ Len(p) = 1 /\ p # Root /\ IsPlace(p) /\ p[1] \in Objects
         /\ Sent(Itself, p) = p
<1>1. IsPlace(p) /\ p[1] \in Objects
  BY PointeeIs DEF ReadingInv
<1>2. \E slot \in DOMAIN graph : p = graph[slot]
  BY DEF Pointee, At, Null
<1>3. Len(p) = 1 /\ p # Root
  BY <1>2 DEF PlainGraph
<1>4. Sent(Itself, p) = p
  BY <1>1, SentItself
<1> QED  BY <1>1, <1>3, <1>4

(* What is written of a pointer: a prefix, and an object if it is new      *)
LEMMA PrefixTells ==
  ASSUME PlainStructs, ReadingInv, NEW types, TypedBy(writer, graph, types), PlainGraph,
         WrittenAsTold(types), phase = "write", agenda # <<>>, UNCHANGED <<pair, graph, sctx>>,
         NEW item, item = Head(agenda), item.do = "pointer",
         NEW p, p = Pointee(item),
         NEW token, token[1] = Prefix(sctx), Write(<<token>>),
         NEW letter, letter = Letter(types), TellsOf(letter, Seen, token[2], p),
         \/ token[2] # 1 /\ Continue(<<>>) /\ Seen' = Seen
         \/ /\ token[2] = 1
            /\ Continue(<<Latest(writer, item.member.type, p)>>)
            /\ IF "checkRecursivePointers" \in sctx.flags
               THEN Seen' = Seen \cup {<<Len(out) + 1, p>>} ELSE Seen' = Seen
  PROVE  WrittenAsTold(types)'
<1>1. PICK rest, c, m : /\ rest = Places(Itself, Tail(agenda)) /\ c = sctx.version
                        /\ m = item.member
  OBVIOUS
<1>2. WriterFinds(types, letter, item, rest)
  BY <1>1, WriterFindsIt
<1>3. /\ IsSequence(rest) /\ IsSequence(out) /\ Len(out) \in Nat /\ IsLetter(letter, types)
      /\ IsBuild(writer) /\ Plain(writer, c)
      /\ Traces(letter, out, FromRoot,
                Tracing(Then(ItemPlaces(Itself, item), rest), Len(out), Seen))
  BY <1>1, <1>2 DEF WriterFinds
<1>4. item.do \in MemberKinds
  BY DEF MemberKinds
<1>5. /\ Sent(Itself, item.from) = item.from /\ item.do = m.kind
      /\ m.name \in item.kept <=> m.name \in Lasting(writer, types[item.from], c)
      /\ item.from \in DOMAIN types /\ Fits(writer, types[item.from], c)
      /\ m \in ToSet(MessageMembers(writer, types[item.from], c))
      /\ MemberInMessage(writer, sctx, m)
  BY <1>1, <1>2, <1>4, MemberSendsIs
<1>6. p = PointerSent(letter, item.from, m.name)
  <2>1. PointerSent(letter, item.from, m.name)
          = IF m.name \in Lasting(writer, types[item.from], c)
            THEN At(graph, Part(item.from, m.name, 1)) ELSE Null
    BY <1>1, <1>3, LetterHas
  <2> QED  BY <1>1, <1>5, <2>1 DEF Pointee
<1>7. PICK x : x = Tracing(First(PointerAt(item.from, m.name), rest), Len(out), Seen)
  OBVIOUS
<1>8. Traces(letter, out, FromRoot, x)
      /\ FacingWith(x, PointerAt(item.from, m.name), rest, Len(out), Seen)
  <2>1. ItemPlaces(Itself, item) = <<PointerAt(item.from, m.name)>>
    BY <1>1, <1>4, <1>5 DEF ItemPlaces, MemberPlaces
  <2>2. Then(ItemPlaces(Itself, item), rest) = First(PointerAt(item.from, m.name), rest)
    BY ONLY <1>3, <2>1, ThenIs
  <2> QED  BY <1>3, <1>7, <2>2, TracingFaces
<1>9. Joins(out', out, <<token>>)
  BY DEF Write, Joins
<1>10. Len(out') = Len(out) + 1 /\ out'[Len(out) + 1] = token
  BY <1>3, <1>9, AppendedOne
<1>11. Len(out) \in 0..(Len(out') - 1)
  BY <1>3, <1>10
<1>12. letter.ctx = sctx
  BY <1>3 DEF IsLetter
<1>13. Tells(letter, out', x)
  BY <1>6, <1>8, <1>10, <1>11, <1>12, PointerTells
<1>14. Traces(letter, out', FromRoot, x)
  <2>1. IsSequence(<<token>>)
    BY AgendaOfOne
  <2> QED  BY <1>3, <1>8, <1>9, <2>1, TracesKept DEF Joins
<1>15. x.todo # <<>>
  BY <1>8 DEF FacingWith, Facing
<1>16. Traces(letter, out', FromRoot, Traced(letter, out', x))
  BY <1>13, <1>14, <1>15, TracesOn
<1>17. CASE token[2] # 1 /\ Continue(<<>>) /\ Seen' = Seen
  <2>1. Traced(letter, out', x) = Tracing(rest, Len(out) + 1, Seen)
    <3>1. out'[Len(out) + 1][2] # 1
      BY <1>10, <1>17
    <3> QED  BY <1>8, <3>1, TracedKnown
  <2>2. Traces(letter, out', FromRoot, Tracing(rest, Len(out'), Seen'))
    BY <1>10, <1>16, <1>17, <2>1
  <2> QED  BY <1>1, <1>3, <1>17, <2>2, WriterIsDoneTold
<1>18. CASE /\ token[2] = 1
            /\ Continue(<<Latest(writer, m.type, p)>>)
            /\ IF "checkRecursivePointers" \in sctx.flags
               THEN Seen' = Seen \cup {<<Len(out) + 1, p>>} ELSE Seen' = Seen
  <2>1. p # Null
    BY <1>18 DEF TellsOf
  <2>2. IsPlace(p) /\ p[1] \in Objects /\ Sent(Itself, p) = p
    BY <2>1, PointerLeads
  <2>3. PICK y : y = Latest(writer, m.type, p)
    OBVIOUS
  <2>4. PICK v : v = getLatestPrivateVersion(writer, m.type)
    OBVIOUS
  <2>5. /\ y.do = "struct" /\ y.type = m.type /\ y.version = v /\ y.from = p
        /\ y.kept = Names(writer, m.type, v)
    BY <2>3, <2>4, WholeIs DEF Latest
  <2>6. p \in DOMAIN types /\ types[p] = m.type
    <3>1. p = At(graph, Part(item.from, m.name, 1))
      BY <1>1, <2>1 DEF Pointee
    <3>2. m.kind = "pointer"
      BY <1>5
    <3> QED  BY <1>3, <1>5, <2>1, <3>1, <3>2, PartIsTyped
  <2>7. ItemSends(types, y)
    <3>1. /\ getBestCompatInterfaceVersion(writer, m.type, v, c) = VersionAt(writer, m.type, c)
          /\ HandedOn(writer, m.type, v, c) = Lasting(writer, m.type, c)
      BY <2>4 DEF VersionAt, Lasting
    <3> QED  BY <1>1, <2>5, <2>6, <3>1, WholeSends
  <2>8. IsItem(writer, sctx, made, y)
    <3>1. InMessage(writer, sctx, m.type)
      BY <1>5 DEF MemberInMessage
    <3> QED  BY <1>3, <2>2, <2>3, <3>1, LatestIsItem
  <2>9. Places(Itself, <<y>>) = <<StructAt(p)>>
    BY <2>2, <2>5, PlacesOfStruct
  <2>10. Traced(letter, out', x) = Tracing(First(StructAt(p), rest), Len(out'), Seen')
    <3>1. out'[Len(out) + 1][2] = 1
      BY <1>10, <1>18
    <3>2. Traced(letter, out', x)
            = Tracing(First(StructAt(p), rest), Len(out) + 1,
                      NumberedNow(letter, Seen, Len(out) + 1, p))
      <4>1. PICK t : t = PointerSent(letter, item.from, m.name)
        OBVIOUS
      <4>2. Traced(letter, out', x)
              = Tracing(First(StructAt(t), rest), Len(out) + 1,
                        NumberedNow(letter, Seen, Len(out) + 1, t))
        <5>1. FacingWith(x, PointerAt(item.from, m.name), rest, Len(out), Seen)
          BY <1>8
        <5>2. PICK tokens, at, name, from :
                tokens = out' /\ at = Len(out) /\ name = m.name /\ from = item.from
          OBVIOUS
        <5>3. FacingWith(x, PointerAt(from, name), rest, at, Seen) /\ tokens[at + 1][2] = 1
              /\ t = PointerSent(letter, from, name)
          BY <3>1, <4>1, <5>1, <5>2
        <5>4. Traced(letter, tokens, x)
              = Tracing(First(StructAt(t), rest), at + 1, NumberedNow(letter, Seen, at + 1, t))
          BY <5>3, TracedNew
        <5> QED  BY <5>2, <5>4
      <4> QED  BY <1>6, <4>1, <4>2
    <3>3. NumberedNow(letter, Seen, Len(out) + 1, p) = Seen'
      BY <1>12, <1>18 DEF NumberedNow, IsRecursive
    <3> QED  BY <1>10, <3>2, <3>3
  <2>11. Traces(letter, out', FromRoot,
                Tracing(Then(Places(Itself, <<y>>), rest), Len(out'), Seen'))
    <3>1. IsSequence(rest)
      BY <1>3
    <3>2. Then(<<StructAt(p)>>, rest) = First(StructAt(p), rest)
      BY <3>1, ThenIs
    <3> QED  BY <1>16, <2>9, <2>10, <3>2
  <2>12. IsSequence(<<y>>) /\ Elements(<<y>>) = {y}
    BY AgendaOfOne
  <2>13. agenda' = <<y>> \o Tail(agenda) /\ phase' = phase
    BY <1>18, <2>3 DEF Continue
  <2> QED  BY <1>1, <2>7, <2>8, <2>11, <2>12, <2>13, WriterTellsOn
<1> QED  BY <1>1, <1>17, <1>18

(* serialize of a pointer tells of what it leads to.                       *)
LEMMA SerializePointerTells ==
  ASSUME PlainStructs, ReadingInv, NEW types, TypedBy(writer, graph, types), PlainGraph,
         WrittenAsTold(types), SerializePointer
  PROVE  WrittenAsTold(types)'
<1>1. PICK item, p, added : /\ item = Head(agenda) /\ p = Pointee(item)
                            /\ added = addPointerToMap(p)
  OBVIOUS
<1>2. PICK letter : letter = Letter(types)
  OBVIOUS
<1>3. phase = "write" /\ agenda # <<>> /\ item.do = "pointer" /\ UNCHANGED <<pair, graph, sctx>>
  BY <1>1 DEF SerializePointer, Doing
<1>4. CASE phase' = "idle"
  BY <1>4, StopTells
<1>5. CASE /\ "checkRecursivePointers" \in sctx.flags
           /\ Write(<<<<"size", added.prefix>>>>)
           /\ pointersMap' = IF added.new THEN With(pointersMap, p, Len(out')) ELSE pointersMap
           /\ Continue(IF added.new THEN <<Latest(writer, item.member.type, p)>> ELSE <<>>)
  <2>1. PICK token : token = <<"size", added.prefix>>
    OBVIOUS
  <2>2. token[1] = Prefix(sctx) /\ token[2] = added.prefix
    BY <1>5, <2>1 DEF Prefix
  <2>3. Write(<<token>>)
    BY <1>5, <2>1
  <2>4. CASE p # Null /\ p \notin DOMAIN pointersMap
    <3>1. added.prefix = 1 /\ added.new
      BY <1>1, <2>4, AddedIs
    <3>2. \A e \in Seen : e[2] # p
      BY <2>4 DEF Seen
    <3>3. TellsOf(letter, Seen, token[2], p)
      BY <2>2, <2>4, <3>1, <3>2 DEF TellsOf
    <3>4. Len(p) = 1
      BY <1>1, <2>4, PointerLeads
    <3>5. Seen' = Seen \cup {<<Len(out'), p>>}
      BY <1>5, <2>4, <3>1, <3>4 DEF Seen, With
    <3>6. Len(out') = Len(out) + 1
      <4>1. IsSequence(out)
        BY <1>3, WritersItem DEF ReadingInv
      <4>2. Joins(out', out, <<token>>)
        BY <2>3 DEF Write, Joins
      <4> QED  BY <4>1, <4>2, AppendedOne
    <3>7. Continue(<<Latest(writer, item.member.type, p)>>)
      BY <1>5, <3>1
    <3> QED  BY <1>1, <1>2, <1>3, <1>5, <2>2, <2>3, <3>1, <3>3, <3>5, <3>6, <3>7, PrefixTells
  <2>5. CASE p = Null
    <3>1. added.prefix = 0 /\ ~added.new
      BY <1>1, <2>5, AddedIs
    <3>2. TellsOf(letter, Seen, token[2], p) /\ token[2] # 1
      BY <2>2, <2>5, <3>1 DEF TellsOf
    <3>3. Continue(<<>>) /\ Seen' = Seen
      BY <1>5, <3>1 DEF Seen
    <3> QED  BY <1>1, <1>2, <1>3, <2>2, <2>3, <3>2, <3>3, PrefixTells
  <2>6. CASE p # Null /\ p \in DOMAIN pointersMap
    <3>1. added.prefix = pointersMap[p] /\ ~added.new
      BY <1>1, <2>6, AddedIs
    <3>2. Len(p) = 1
      BY <1>1, <2>6, PointerLeads
    <3>3. pointersMap[p] > 1 /\ pointersMap[p] # 1
      <4>1. pointersMap[p] \in Len(Header)..Len(out) /\ Len(out) \in Nat
        BY <1>3, <2>6, WritersItem DEF ReadingInv
      <4>2. Len(Header) = 2
        BY DEF Header
      <4> QED  BY <4>1, <4>2
    <3>4. <<pointersMap[p], p>> \in Seen
      BY <2>6, <3>2 DEF Seen
    <3>5. TellsOf(letter, Seen, token[2], p) /\ token[2] # 1
      BY <2>2, <2>6, <3>1, <3>3, <3>4 DEF TellsOf
    <3>6. Continue(<<>>) /\ Seen' = Seen
      BY <1>5, <3>1 DEF Seen
    <3> QED  BY <1>1, <1>2, <1>3, <2>2, <2>3, <3>5, <3>6, PrefixTells
  <2> QED  BY <2>4, <2>5, <2>6
<1>6. CASE /\ "checkRecursivePointers" \notin sctx.flags
           /\ Write(<<<<"flag", IF p = Null THEN 0 ELSE 1>>>>)
           /\ Continue(IF p = Null THEN <<>> ELSE <<Latest(writer, item.member.type, p)>>)
           /\ UNCHANGED pointersMap
  <2>1. PICK token : token = <<"flag", IF p = Null THEN 0 ELSE 1>>
    OBVIOUS
  <2>2. token[1] = Prefix(sctx) /\ token[2] = IF p = Null THEN 0 ELSE 1
    BY <1>6, <2>1 DEF Prefix
  <2>3. Write(<<token>>)
    BY <1>6, <2>1
  <2>4. ~IsRecursive(letter)
    BY <1>2, <1>6 DEF IsRecursive, Letter
  <2>5. TellsOf(letter, Seen, token[2], p)
    BY <2>2, <2>4 DEF TellsOf
  <2>6. Seen' = Seen
    BY <1>6 DEF Seen
  <2>7. CASE p = Null
    <3>1. token[2] # 1 /\ Continue(<<>>)
      BY <1>6, <2>2, <2>7
    <3> QED  BY <1>1, <1>2, <1>3, <2>2, <2>3, <2>5, <2>6, <3>1, PrefixTells
  <2>8. CASE p # Null
    <3>1. token[2] = 1 /\ Continue(<<Latest(writer, item.member.type, p)>>)
      BY <1>6, <2>2, <2>8
    <3> QED  BY <1>1, <1>2, <1>3, <1>6, <2>2, <2>3, <2>5, <2>6, <3>1, PrefixTells
  <2> QED  BY <2>7, <2>8
<1> QED  BY <1>1, <1>4, <1>5, <1>6 DEF SerializePointer, Stop

(* Of a message that has not begun nothing is told.                        *)
LEMMA SerializeTells ==
  ASSUME ReadingInv, NEW g \in Graphs, Serialize(g), NEW types, TypedBy(writer, graph, types)'
  PROVE  WrittenAsTold(types)' /\ ReadAsTold(types)'
<1>1. CASE phase' = "idle"
  BY <1>1, StopTells
<1>2. CASE agenda' = <<Latest(writer, RootType, Root)>> /\ phase' = "write"
  <2>1. status = "ready" /\ out' = Header /\ UNCHANGED <<pair, pointersMap>>
    BY DEF Serialize
  <2>2. pointersMap = <<>>
    BY <2>1 DEF ReadingInv, BodyInv, Typed, InOrder
  <2>3. writer' = writer /\ Seen' = {}
    BY <2>1, <2>2 DEF writer, Seen
  <2>4. Root \in DOMAIN types /\ types[Root] = RootType
    BY DEF TypedBy
  <2>5. PICK item, v : /\ item = Latest(writer, RootType, Root)
                       /\ v = getLatestPrivateVersion(writer, RootType)
    OBVIOUS
  <2>6. /\ item.do = "struct" /\ item.type = RootType /\ item.version = v /\ item.from = Root
        /\ item.kept = Names(writer, RootType, v)
    BY <2>5, WholeIs DEF Latest
  <2>7. ItemSends(types, item)'
    <3>1. \A c : /\ getBestCompatInterfaceVersion(writer, RootType, v, c)
                      = VersionAt(writer, RootType, c)
                 /\ HandedOn(writer, RootType, v, c) = Lasting(writer, RootType, c)
                 /\ HandedOn(writer, RootType, v, c) \subseteq Names(writer, RootType, v)
      BY <2>5 DEF VersionAt, Lasting, HandedOn
    <3>2. PICK c : c = sctx'.version
      OBVIOUS
    <3>3. /\ getBestCompatInterfaceVersion(writer, RootType, v, c)
               = VersionAt(writer, RootType, c)
          /\ Names(writer, RootType, v) \cap HandedOn(writer, RootType, v, c)
               = Lasting(writer, RootType, c)
      BY <3>1
    <3>4. StructSends(types, item)'
      BY <2>3, <2>4, <2>6, <3>2, <3>3 DEF StructSends
    <3> QED  BY <2>6, <3>4 DEF ItemSends, MemberKinds
  <2>8. Places(Itself, <<item>>) = <<StructAt(Root)>>
    <3>1. Sent(Itself, Root) = Root
      <4>1. IsPlace(Root) /\ Root[1] \in Objects
        BY ObjectIsPlace DEF Root, Objects
      <4> QED  BY <4>1, SentItself
    <3> QED  BY <2>6, <3>1, PlacesOfStruct
  <2>9. Traces(Letter(types)', out', FromRoot', Tracing(Places(Itself, agenda'), Len(out'), Seen'))
    <3>1. FromRoot' = Tracing(Places(Itself, agenda'), Len(out'), Seen')
      BY <1>2, <2>1, <2>3, <2>5, <2>8 DEF FromRoot
    <3>2. PICK x, l, o : x = FromRoot' /\ l = Letter(types)' /\ o = out'
      OBVIOUS
    <3>3. Traces(l, o, x, x)
      BY TracesHere
    <3> QED  BY <3>1, <3>2, <3>3
  <2>10. \A x \in Elements(agenda') : ItemSends(types, x)'
    <3>1. Elements(<<item>>) = {item}
      BY AgendaOfOne
    <3> QED  BY <1>2, <2>5, <2>7, <3>1
  <2> QED  BY <1>2, <2>9, <2>10 DEF WrittenAsTold, ReadAsTold
<1> QED  BY <1>1, <1>2 DEF Serialize, Stop

(* The steps of the reader.                                                *)

(* A step that lets the writer be, and what the reader has                 *)
Onward(origin, later) ==
  /\ UNCHANGED <<pair, graph, sctx, out, pointersMap>>
  /\ made \in Nat /\ made' \in Nat /\ made <= made'
  /\ \A k \in 0..made : later[k] = origin[k]
  /\ Staying \subseteq Staying' /\ Passing \subseteq Passing'

(* A step that replaces the innermost call by others                       *)
Replaced(items) ==
  /\ IsSequence(agenda) /\ agenda # <<>> /\ IsSequence(items)
  /\ agenda' = items \o Tail(agenda)

(* What an agenda is, of which the head was replaced                       *)
LEMMA ReplacedIs ==
  ASSUME NEW items, Replaced(items)
  PROVE  /\ IsSequence(agenda') /\ IsSequence(Tail(agenda))
         /\ Elements(agenda') = Elements(items) \cup Elements(Tail(agenda))
         /\ Elements(agenda) = {Head(agenda)} \cup Elements(Tail(agenda))
         /\ Len(agenda') = Len(items) + Len(Tail(agenda)) /\ Len(items) \in Nat
         /\ Len(Tail(agenda)) = Len(agenda) - 1 /\ Len(agenda) \in Nat
         /\ \A i \in 1..Len(agenda') :
              agenda'[i] = IF i <= Len(items) THEN items[i] ELSE Tail(agenda)[i - Len(items)]
         /\ \A i \in 1..(Len(agenda) - 1) : Tail(agenda)[i] = agenda[i + 1]
<1>1. IsSequence(agenda) /\ agenda # <<>> /\ IsSequence(items) /\ agenda' = items \o Tail(agenda)
  BY DEF Replaced
<1>2. PICK rest, x : rest = Tail(agenda) /\ x = Head(agenda)
  OBVIOUS
<1>3. IsSequence(rest) /\ Len(rest) = Len(agenda) - 1 /\ agenda = <<x>> \o rest
      /\ Len(agenda) \in Nat
  BY <1>1, <1>2, TailElements DEF IsSequence
<1>4. /\ IsSequence(agenda') /\ Elements(agenda') = Elements(items) \cup Elements(rest)
      /\ Len(agenda') = Len(items) + Len(rest) /\ Len(items) \in Nat
      /\ \A i \in 1..Len(agenda') :
           agenda'[i] = IF i <= Len(items) THEN items[i] ELSE rest[i - Len(items)]
  <2>1. PICK u : u = items \o rest
    OBVIOUS
  <2>2. /\ IsSequence(u) /\ Elements(u) = Elements(items) \cup Elements(rest)
        /\ Len(u) = Len(items) + Len(rest) /\ Len(items) \in Nat
        /\ \A i \in 1..Len(u) : u[i] = IF i <= Len(items) THEN items[i] ELSE rest[i - Len(items)]
    <3>1. IsSequence(items) /\ IsSequence(rest)
      BY <1>1, <1>3
    <3>2. /\ IsSequence(items \o rest) /\ Len(items \o rest) = Len(items) + Len(rest)
          /\ \A i \in 1..Len(items \o rest) :
               (items \o rest)[i] = IF i <= Len(items) THEN items[i] ELSE rest[i - Len(items)]
          /\ Elements(items \o rest) = Elements(items) \cup Elements(rest)
      BY <3>1, Concatenated
    <3>3. Len(items) \in Nat
      BY <1>1 DEF IsSequence
    <3> QED  BY <2>1, <3>2, <3>3
  <2> QED  BY <1>1, <1>2, <2>1, <2>2
<1>5. Elements(agenda) = {x} \cup Elements(rest)
  <2>1. IsSequence(<<x>>) /\ Elements(<<x>>) = {x}
    BY AgendaOfOne
  <2> QED  BY <1>3, <2>1, Concatenated
<1>6. \A i \in 1..(Len(agenda) - 1) : rest[i] = agenda[i + 1]
  BY <1>1, <1>2, <1>3, SequenceOfElements
<1> QED  BY <1>2, <1>3, <1>4, <1>5, <1>6

(* What stood stands on where it was.                                      *)
LEMMA StandsOn ==
  ASSUME NEW types, NEW origin, NEW later, Onward(origin, later), NEW p,
         Stands(types, origin, p), p[1] \notin dead'
  PROVE  /\ Stands(types, later, p)' /\ Sent(later, p) = Sent(origin, p)
         /\ TypeOf(types, later, p) = TypeOf(types, origin, p)
<1>1. IsPlace(p) /\ p[1] \in (0..made) \ dead /\ Sent(origin, p) \in DOMAIN types
      /\ CanHold(reader, TypeOf(types, origin, p))
  BY DEF Stands
<1>2. later[p[1]] = origin[p[1]] /\ p[1] \in 0..made' /\ sctx' = sctx /\ reader' = reader
  BY <1>1 DEF Onward, reader
<1>3. Sent(later, p) = Sent(origin, p)
  BY <1>2 DEF Sent
<1>4. TypeOf(types, later, p) = TypeOf(types, origin, p)
  BY <1>3 DEF TypeOf
<1>5. CanHold(reader, TypeOf(types, later, p))'
  BY <1>1, <1>2, <1>4 DEF CanHold
<1> QED  BY <1>1, <1>2, <1>3, <1>4, <1>5 DEF Stands

(* What is held holds as told on.                                          *)
LEMMA HoldsOn ==
  ASSUME NEW types, NEW origin, NEW later, Onward(origin, later), NEW q,
         Sent(later, q) = Sent(origin, q), NEW m, NEW value,
         HoldsAsTold(types, origin, q, m, value)
  PROVE  HoldsAsTold(types, later, q, m, value)'
<1>1. PICK letter : letter = Letter(types)
  OBVIOUS
<1>2. Letter(types)' = letter
  <2>1. graph' = graph /\ sctx' = sctx /\ writer' = writer
    BY DEF Onward, writer
  <2> QED  BY <1>1, <2>1 DEF Letter
<1>3. \A k \in Staying : k \in Staying' /\ later[k] = origin[k]
  BY DEF Onward, Staying
<1>4. /\ m.kind = "number" => value = NumberSent(letter, Sent(origin, q), m.name)
      /\ m.kind = "pointer" =>
           IF PointerSent(letter, Sent(origin, q), m.name) = Null THEN value = Null
           ELSE \E k \in Staying :
                  value = <<k>> /\ origin[k] = PointerSent(letter, Sent(origin, q), m.name)
  BY <1>1 DEF HoldsAsTold
<1>5. /\ m.kind = "number" => value = NumberSent(letter, Sent(later, q), m.name)
      /\ m.kind = "pointer" =>
           IF PointerSent(letter, Sent(later, q), m.name) = Null THEN value = Null
           ELSE \E k \in Staying' :
                  value = <<k>> /\ later[k] = PointerSent(letter, Sent(later, q), m.name)
  BY <1>3, <1>4
<1> QED  BY <1>2, <1>5 DEF HoldsAsTold

(* A temporary stays one.                                                  *)
LEMMA TemporaryOn ==
  ASSUME NEW origin, NEW later, Onward(origin, later), NEW p, IsTemporary(p)
  PROVE  IsTemporary(p)'
BY DEF Onward, IsTemporary

(* A slot stays that of its member while its object is there.              *)
LEMMA SlotOn ==
  ASSUME NEW types, NEW origin, NEW later, Onward(origin, later), NEW slot, NEW q, NEW m, NEW value,
         SlotIs(types, origin, slot, q, m, value), q[1] \notin dead'
  PROVE  SlotIs(types, later, slot, q, m, value)'
<1>1. PICK T : T = TypeOf(types, origin, q)
  OBVIOUS
<1>2. /\ slot = Part(q, m.name, 1) /\ Stands(types, origin, q)
      /\ m \in ToSet(MessageMembers(reader, T, sctx.version))
      /\ m.kind \in {"number", "pointer"}
      /\ m.name \in Lasting(reader, T, sctx.version) \/ IsTemporary(q)
      /\ HoldsAsTold(types, origin, q, m, value)
  BY <1>1 DEF SlotIs
<1>3. Stands(types, later, q)' /\ Sent(later, q) = Sent(origin, q) /\ TypeOf(types, later, q) = T
  BY <1>1, <1>2, StandsOn
<1>4. HoldsAsTold(types, later, q, m, value)'
  BY <1>2, <1>3, HoldsOn
<1>5. IsTemporary(q) => IsTemporary(q)'
  BY TemporaryOn
<1>6. sctx' = sctx /\ reader' = reader
  BY DEF Onward, reader
<1> QED  BY <1>2, <1>3, <1>4, <1>5, <1>6 DEF SlotIs

(* What is left to read stays so while its object is there.                *)
LEMMA ItemOn ==
  ASSUME NEW types, NEW origin, NEW later, Onward(origin, later), NEW item,
         ItemReads(types, origin, item),
         item.do # "element" => item.at[1] \notin dead',
         item.do = "convert" => item.temporary[1] \notin dead'
  PROVE  ItemReads(types, later, item)'
<1>1. sctx' = sctx /\ reader' = reader
  BY DEF Onward, reader
<1>2. PICK T : T = TypeOf(types, origin, item.at)
  OBVIOUS
<1>3. IsTemporary(item.at) => IsTemporary(item.at)'
  BY TemporaryOn
<1>4. CASE item.do = "struct"
  <2>1. Stands(types, origin, item.at) /\ StructReads(types, origin, item)
    BY <1>4 DEF ItemReads
  <2>2. Stands(types, later, item.at)' /\ TypeOf(types, later, item.at) = T
    BY <1>2, <1>4, <2>1, StandsOn
  <2>3. StructReads(types, later, item)'
    BY <1>1, <1>2, <1>3, <2>1, <2>2 DEF StructReads
  <2> QED  BY <1>4, <2>2, <2>3 DEF ItemReads, MemberKinds
<1>5. CASE item.do \in MemberKinds
  <2>1. Stands(types, origin, item.at) /\ MemberReads(types, origin, item)
    BY <1>5 DEF ItemReads
  <2>2. Stands(types, later, item.at)' /\ TypeOf(types, later, item.at) = T
    BY <1>2, <1>5, <2>1, StandsOn DEF MemberKinds
  <2>3. MemberReads(types, later, item)'
    BY <1>1, <1>2, <1>3, <2>1, <2>2 DEF MemberReads
  <2> QED  BY <1>5, <2>2, <2>3 DEF ItemReads, MemberKinds
<1>6. CASE item.do = "convert"
  <2>1. Stands(types, origin, item.at) /\ ConvertReads(types, origin, item)
    BY <1>6 DEF ItemReads
  <2>2. /\ Stands(types, later, item.at)' /\ TypeOf(types, later, item.at) = T
        /\ Sent(later, item.at) = Sent(origin, item.at)
    BY <1>2, <1>6, <2>1, StandsOn
  <2>3. PICK k : k = item.temporary[1]
    OBVIOUS
  <2>4. /\ T = item.type /\ k \in (1..made) \ dead /\ origin[k] = Sent(origin, item.at)
        /\ Handed(reader, T, Append(item.chain, item.version)) = Lasting(reader, T, sctx.version)
    BY <1>2, <2>1, <2>3 DEF ConvertReads
  <2>5. k \in (1..made') \ dead' /\ later[k] = origin[k]
    BY <1>6, <2>3, <2>4 DEF Onward
  <2>6. ConvertReads(types, later, item)'
    BY <1>1, <2>2, <2>3, <2>4, <2>5 DEF ConvertReads
  <2> QED  BY <1>6, <2>2, <2>6 DEF ItemReads, MemberKinds
<1> QED  BY <1>4, <1>5, <1>6 DEF ItemReads

(* The temporaries of calls                                                *)
TemporariesOf(items) == {x.temporary[1] : x \in {y \in Elements(items) : y.do = "convert"}}

(* The temporaries change with the conversions that are left to do.        *)
LEMMA TemporariesChange ==
  ASSUME NEW items, Replaced(items)
  PROVE  /\ Temporaries = TemporariesOf(agenda) /\ Temporaries' = TemporariesOf(agenda')
         /\ Head(agenda).do # "convert" /\ (\A x \in Elements(items) : x.do # "convert") =>
              Temporaries' = Temporaries
<1>1. /\ IsSequence(agenda') /\ IsSequence(agenda)
      /\ Elements(agenda') = Elements(items) \cup Elements(Tail(agenda))
      /\ Elements(agenda) = {Head(agenda)} \cup Elements(Tail(agenda))
  BY ReplacedIs DEF Replaced
<1>2. ToSet(agenda) = Elements(agenda) /\ ToSet(agenda') = Elements(agenda')
  BY <1>1, SequenceOfElements, SequenceIs
<1>3. Temporaries = TemporariesOf(agenda)
  BY <1>2 DEF Temporaries, TemporariesOf
<1>4. Temporaries' = TemporariesOf(agenda')
  BY <1>2 DEF Temporaries, TemporariesOf
<1>5. ASSUME Head(agenda).do # "convert", \A x \in Elements(items) : x.do # "convert"
      PROVE  Temporaries' = Temporaries
  <2>1. {y \in Elements(agenda') : y.do = "convert"} = {y \in Elements(agenda) : y.do = "convert"}
    BY <1>1, <1>5
  <2> QED  BY <1>3, <1>4, <2>1 DEF TemporariesOf
<1> QED  BY <1>3, <1>4, <1>5

(* Calls that convert nothing come in their time.                          *)
LEMMA TimeGoesOn ==
  ASSUME NEW items, Replaced(items), InTheirTime, \A x \in Elements(items) : x.do # "convert"
  PROVE  InTheirTime'
<1>1. /\ Len(agenda') = Len(items) + (Len(agenda) - 1) /\ Len(items) \in Nat /\ Len(agenda) \in Nat
      /\ \A i \in 1..Len(agenda') :
           agenda'[i] = IF i <= Len(items) THEN items[i] ELSE Tail(agenda)[i - Len(items)]
      /\ \A i \in 1..(Len(agenda) - 1) : Tail(agenda)[i] = agenda[i + 1]
  BY ReplacedIs
<1>2. \A i \in 1..Len(items) : items[i].do # "convert"
  BY DEF Elements
<1>3. ASSUME NEW i \in 1..Len(agenda'), i > Len(items)
      PROVE  /\ i - Len(items) + 1 \in 1..Len(agenda)
             /\ agenda'[i] = agenda[i - Len(items) + 1]
  BY <1>1, <1>3
<1>4. ASSUME NEW i \in 1..Len(agenda'), NEW j \in 1..Len(agenda'), i <= j,
             agenda'[i].do = "convert"
      PROVE  /\ agenda'[j].at[1] # agenda'[i].temporary[1]
             /\ i < j /\ agenda'[j].do = "convert" => agenda'[j].temporary # agenda'[i].temporary
  <2>1. i > Len(items) /\ j > Len(items)
    BY <1>1, <1>2, <1>4
  <2>2. PICK k, l : k = i - Len(items) + 1 /\ l = j - Len(items) + 1
    OBVIOUS
  <2>3. k \in 1..Len(agenda) /\ l \in 1..Len(agenda)
        /\ agenda'[i] = agenda[k] /\ agenda'[j] = agenda[l]
    BY <1>3, <2>1, <2>2
  <2>4. k <= l /\ (i < j => k < l)
    BY <1>1, <1>4, <2>2
  <2> QED  BY <1>4, <2>3, <2>4 DEF InTheirTime
<1> QED  BY <1>4 DEF InTheirTime

(* Where objects come from that were there before, they still do.          *)
LEMMA PlacesOn ==
  ASSUME NEW origin, NEW later, NEW items, IsSequence(items),
         \A x \in Elements(items) : x.do \in MemberKinds \cup {"struct"} =>
           Sent(later, x.from) = Sent(origin, x.from)
  PROVE  Places(later, items) = Places(origin, items)
<1>1. \A i \in 1..Len(items) : ItemPlaces(later, items[i]) = ItemPlaces(origin, items[i])
  <2> TAKE i \in 1..Len(items)
  <2>1. PICK x : x = items[i]
    OBVIOUS
  <2>2. x \in Elements(items)
    BY <2>1 DEF Elements
  <2>3. x.do \in MemberKinds \cup {"struct"} => Sent(later, x.from) = Sent(origin, x.from)
    BY <2>2
  <2> QED  BY <2>1, <2>3 DEF ItemPlaces
<1> QED  BY <1>1 DEF Places

(* What a step of the reader finds                                         *)
ReaderFinds(types, origin, numbered, opened, letter, c, item, rest) ==
  /\ phase = "read" /\ agenda # <<>> /\ IsSequence(agenda) /\ item = Head(agenda)
  /\ IsSequence(rest) /\ rest = Places(origin, Tail(agenda))
  /\ ReaderKnows(types, origin, numbered, opened)
  /\ Traces(letter, out, Tracing(Then(ItemPlaces(origin, item), rest), tell, numbered),
            Tracing(<<>>, Len(out), Seen))
  /\ ItemReads(types, origin, item)
  /\ letter = Letter(types) /\ IsLetter(letter, types) /\ c = sctx.version
  /\ Plain(writer, c) /\ Plain(reader, c) /\ SameStructs(writer, reader, c)

(* What the reader is                                                      *)
ReaderHas ==
  /\ IsBuild(reader) /\ sctx \in Contexts /\ dctx \in Contexts
  /\ dctx.version = sctx.version /\ dctx.flags = sctx.flags
  /\ dctx.endiannessDifference = sctx.endiannessDifference
  /\ tell \in Nat /\ tell >= Len(Header) /\ tell <= Len(out) /\ Len(out) \in Nat
  /\ IsSequence(out)
  /\ made \in Nat /\ dead \subseteq 1..made
  /\ \A x \in Elements(agenda) : IsItem(reader, dctx, made, x) /\ x.at[1] \in 0..made

(* The reader finds its next item so.                                      *)
LEMMA ReaderFindsIt ==
  ASSUME PlainStructs, OneHistory, ReadingInv, NEW types, ReadAsTold(types),
         phase = "read", agenda # <<>>, NEW item, item = Head(agenda)
  PROVE  /\ ReaderHas
         /\ \E origin, numbered, opened, letter, c, rest :
              ReaderFinds(types, origin, numbered, opened, letter, c, item, rest)
<1>1. PICK origin, numbered, opened : ReaderKnows(types, origin, numbered, opened)
  BY DEF ReadAsTold
<1>2. PICK letter, c, rest : /\ letter = Letter(types) /\ c = sctx.version
                             /\ rest = Places(origin, Tail(agenda))
  OBVIOUS
<1>3. BodyInv /\ Typed /\ TypeOK
  BY DEF ReadingInv, BodyInv, Typed
<1>4. PICK shape : shape = Shape(reader, sctx.version, Tail(agenda))
  OBVIOUS
<1>5. /\ IsBuild(reader) /\ dctx \in Contexts /\ dctx.version = sctx.version
      /\ dctx.flags = sctx.flags /\ dctx.endiannessDifference = sctx.endiannessDifference
      /\ SameStructs(writer, reader, sctx.version)
      /\ tell \in Nat /\ tell <= Len(out) /\ tell >= Len(Header) /\ Len(out) \in Nat
      /\ IsSequence(agenda) /\ \A x \in Elements(agenda) : IsItem(reader, dctx, made, x)
  BY <1>4, ReaderIsAt
<1>6. made \in Nat /\ dead \subseteq 1..made /\ IsSequence(out)
  BY <1>3, ReadersItem
<1>7. \A x \in Elements(agenda) : x.at[1] \in 0..made
  BY <1>3 DEF Typed, ReadInto
<1>8. sctx \in Contexts
  BY <1>3 DEF TypeOK
<1>9. ReaderHas
  BY <1>5, <1>6, <1>7, <1>8 DEF ReaderHas
<1>10. IsLetter(letter, types)
  BY <1>2 DEF Letter, IsLetter
<1>11. Plain(writer, c) /\ Plain(reader, c)
  BY <1>2, SidesArePlain
<1>12. Placed(origin, agenda)
  BY <1>5, ItemsArePlaced
<1>13. /\ Places(origin, agenda) = Then(ItemPlaces(origin, item), rest) /\ IsSequence(rest)
  BY <1>2, <1>12, PlacesOfNone, AgendaPlaces
<1>14. Traces(letter, out, Tracing(Places(origin, agenda), tell, numbered),
              Tracing(<<>>, Len(out), Seen))
  BY <1>1, <1>2 DEF ReaderKnows
<1>15. ItemReads(types, origin, item)
  <2>1. item \in Elements(agenda)
    BY <1>5, TailElements
  <2> QED  BY <1>1, <2>1 DEF ReaderKnows
<1>16. ReaderFinds(types, origin, numbered, opened, letter, c, item, rest)
  BY <1>1, <1>2, <1>5, <1>10, <1>11, <1>13, <1>14, <1>15 DEF ReaderFinds
<1> QED  BY <1>9, <1>16

(* A step of the reader that reads on, or makes an object                  *)
LEMMA ReaderToldOn ==
  ASSUME ReaderHas, NEW types, NEW origin, NEW numbered, NEW opened, NEW letter, NEW c,
         NEW item, NEW rest,
         ReaderFinds(types, origin, numbered, opened, letter, c, item, rest),
         NEW later, Onward(origin, later), dead' = dead, phase' = "read",
         NEW items, Replaced(items),
         NEW n, \A x \in Elements(items) : IsItem(reader, dctx, n, x),
         Origins(later)', InTheirTime',
         \A x \in Elements(items) : ItemReads(types, later, x)',
         NEW more, Traces(letter, out, Tracing(Then(Places(later, items), rest), tell', more),
                          Tracing(<<>>, Len(out), Seen)),
         MemoryAsTold(types, later)',
         NEW there, AllIsThere(types, later, there)',
         NumberedAsTold(later, more)'
  PROVE  ReadAsTold(types)'
<1>1. /\ Elements(agenda') = Elements(items) \cup Elements(Tail(agenda))
      /\ Elements(Tail(agenda)) \subseteq Elements(agenda) /\ IsSequence(Tail(agenda))
  BY ReplacedIs
<1>2. ReaderKnows(types, origin, numbered, opened) /\ letter = Letter(types)
      /\ rest = Places(origin, Tail(agenda))
  BY DEF ReaderFinds
<1>3. ASSUME NEW x \in Elements(Tail(agenda))
      PROVE  /\ ItemReads(types, later, x)'
             /\ x.do \in MemberKinds \cup {"struct"} =>
                  Sent(later, x.from) = Sent(origin, x.from)
  <2>1. x \in Elements(agenda) /\ ItemReads(types, origin, x)
    BY <1>1, <1>2, <1>3 DEF ReaderKnows
  <2>2. x.do \in MemberKinds \cup {"struct", "convert"} => x.at[1] \notin dead'
    BY <2>1 DEF ItemReads, Stands
  <2>3. x.do = "convert" => x.temporary[1] \notin dead'
    BY <2>1 DEF ItemReads, ConvertReads
  <2>4. CASE x.do \in MemberKinds \cup {"struct", "convert"}
    <3>1. ItemReads(types, later, x)'
      BY <2>1, <2>2, <2>3, <2>4, ItemOn
    <3>2. x.do \in MemberKinds \cup {"struct"} => Sent(later, x.from) = Sent(origin, x.from)
      <4>1. x.do \in MemberKinds \cup {"struct"} =>
              x.from = x.at /\ Stands(types, origin, x.at) /\ x.at[1] \notin dead'
        BY <2>1, <2>2 DEF ItemReads, StructReads, MemberReads
      <4> QED  BY <4>1, StandsOn
    <3> QED  BY <3>1, <3>2
  <2>5. CASE x.do \notin MemberKinds \cup {"struct", "convert"}
    BY <2>5 DEF ItemReads
  <2> QED  BY <2>4, <2>5
<1>4. Places(later, Tail(agenda)) = rest
  BY <1>1, <1>2, <1>3, PlacesOn
<1>5. Places(later, agenda') = Then(Places(later, items), rest)
  <2>1. Placed(later, agenda) /\ Placed(later, items)
    BY ItemsArePlaced DEF ReaderHas, Replaced
  <2> QED  BY <1>4, <2>1, AgendaPlaces DEF Replaced
<1>6. Letter(types)' = letter /\ out' = out /\ Seen' = Seen
  <2>1. graph' = graph /\ sctx' = sctx /\ writer' = writer
    BY DEF Onward, writer
  <2> QED  BY <1>2, <2>1 DEF Letter, Seen, Onward
<1>7. (Traces(Letter(types), out, Tracing(Places(later, agenda), tell, more),
              Tracing(<<>>, Len(out), Seen)))'
  BY <1>5, <1>6
<1>8. (\A x \in Elements(agenda) : ItemReads(types, later, x))'
  BY <1>1, <1>3
<1>9. ReaderKnows(types, later, more, there)'
  BY <1>7, <1>8 DEF ReaderKnows
<1> QED  BY <1>9 DEF ReadAsTold

(* What is there, or still to come, stays so if the innermost call sees to *)
(* its own.                                                                *)
LEMMA StillThere ==
  ASSUME NEW items, Replaced(items), NEW head, head = Head(agenda),
         NEW opened, NEW there, opened \subseteq there,
         NEW place, IsThere(opened, place),
         head.do \in {"struct", "convert"} /\ head.at = place =>
           IsThere(there, place)'
  PROVE  IsThere(there, place)'
<1>1. /\ Elements(agenda') = Elements(items) \cup Elements(Tail(agenda))
      /\ Elements(agenda) = {head} \cup Elements(Tail(agenda))
  BY ReplacedIs
<1>2. CASE place \in opened
  BY <1>2 DEF IsThere
<1>3. CASE StructComes(place)
  <2>1. PICK x \in Elements(agenda) : x.do \in {"struct", "convert"} /\ x.at = place
    BY <1>3 DEF StructComes
  <2>2. CASE x = head
    BY <2>1, <2>2
  <2>3. CASE x \in Elements(Tail(agenda))
    <3>1. x \in Elements(agenda')
      BY <1>1, <2>3
    <3>2. StructComes(place)'
      BY <2>1, <3>1 DEF StructComes
    <3> QED  BY <3>2 DEF IsThere
  <2> QED  BY <1>1, <2>1, <2>2, <2>3
<1> QED  BY <1>2, <1>3 DEF IsThere

(* A member that is there stays there.                                     *)
LEMMA MemberStillThere ==
  ASSUME NEW items, Replaced(items), NEW head, head = Head(agenda),
         NEW opened, NEW there, opened \subseteq there,
         NEW q, NEW m, MemberIsThere(opened, q, m),
         Part(q, m.name, 1) \in DOMAIN memory => Part(q, m.name, 1) \in DOMAIN memory',
         head.do \in {"struct", "convert"} => IsThere(there, head.at)',
         head.do \in MemberKinds /\ head.at = q /\ head.member = m =>
           MemberIsThere(there, q, m)'
  PROVE  MemberIsThere(there, q, m)'
<1>1. /\ Elements(agenda') = Elements(items) \cup Elements(Tail(agenda))
      /\ Elements(agenda) = {head} \cup Elements(Tail(agenda))
  BY ReplacedIs
<1>2. CASE MemberComes(q, m)
  <2>1. PICK x \in Elements(agenda) : x.do \in MemberKinds /\ x.at = q /\ x.member = m
    BY <1>2 DEF MemberComes
  <2>2. CASE x = head
    BY <2>1, <2>2
  <2>3. CASE x \in Elements(Tail(agenda))
    <3>1. x \in Elements(agenda')
      BY <1>1, <2>3
    <3>2. MemberComes(q, m)'
      BY <2>1, <3>1 DEF MemberComes
    <3> QED  BY <3>2 DEF MemberIsThere
  <2> QED  BY <1>1, <2>1, <2>2, <2>3
<1>3. CASE m.kind \in {"number", "pointer"} /\ Part(q, m.name, 1) \in DOMAIN memory
  BY <1>3 DEF MemberIsThere
<1>4. CASE m.kind \in {"member", "array"} /\ \A j \in 1..m.n : IsThere(opened, Part(q, m.name, j))
  <2>1. \A j \in 1..m.n : IsThere(there, Part(q, m.name, j))'
    <3> TAKE j \in 1..m.n
    <3>1. PICK place : place = Part(q, m.name, j)
      OBVIOUS
    <3>2. IsThere(opened, place)
      BY <1>4, <3>1
    <3>3. IsThere(there, place)'
      BY <3>2, StillThere
    <3> QED  BY <3>1, <3>3
  <2> QED  BY <1>4, <2>1 DEF MemberIsThere
<1> QED  BY <1>2, <1>3, <1>4 DEF MemberIsThere

(* All that is there stays there.                                          *)
LEMMA AllStillThere ==
  ASSUME NEW types, NEW origin, NEW later, Onward(origin, later), dead' = dead,
         NEW items, Replaced(items), NEW head, head = Head(agenda), NEW opened, AllIsThere(types, origin, opened),
         NEW there, opened \subseteq there, DOMAIN memory \subseteq DOMAIN memory',
         head.do # "convert",
         head.do = "struct" => IsThere(there, head.at)',
         head.do \in MemberKinds =>
           MemberIsThere(there, head.at, head.member)',
         \A q \in there \ opened : IsOpened(types, later, there, q)',
         \A k \in Staying' \ Staying : IsThere(there, <<k>>)',
         \A x \in Elements(items) : x.do = "convert" => IsThere(there, x.temporary)'
  PROVE  AllIsThere(types, later, there)'
<1>1. /\ Elements(agenda') = Elements(items) \cup Elements(Tail(agenda))
      /\ Elements(agenda) = {head} \cup Elements(Tail(agenda))
  BY ReplacedIs
<1>2. ASSUME NEW q \in opened
      PROVE  IsOpened(types, later, there, q)'
  <2>1. PICK T : T = TypeOf(types, origin, q)
    OBVIOUS
  <2>2. Stands(types, origin, q) /\ \A m \in ToSet(MessageMembers(reader, T, sctx.version)) :
               m.name \in Lasting(reader, T, sctx.version) => MemberIsThere(opened, q, m)
    BY <1>2, <2>1 DEF AllIsThere, IsOpened
  <2>3. q[1] \notin dead'
    BY <2>2 DEF Stands
  <2>4. Stands(types, later, q)' /\ TypeOf(types, later, q) = T
    BY <2>1, <2>2, <2>3, StandsOn
  <2>5. ASSUME NEW m \in ToSet(MessageMembers(reader, T, sctx.version)),
               m.name \in Lasting(reader, T, sctx.version)
        PROVE  MemberIsThere(there, q, m)'
    <3>1. MemberIsThere(opened, q, m)
      BY <2>2, <2>5
    <3>2. head.do \in {"struct", "convert"} => IsThere(there, head.at)'
      OBVIOUS
    <3>3. head.do \in MemberKinds /\ head.at = q /\ head.member = m =>
            MemberIsThere(there, q, m)'
      OBVIOUS
    <3>4. Part(q, m.name, 1) \in DOMAIN memory => Part(q, m.name, 1) \in DOMAIN memory'
      OBVIOUS
    <3> QED  BY <3>1, <3>2, <3>3, <3>4, MemberStillThere
  <2>6. sctx' = sctx /\ reader' = reader
    BY DEF Onward, reader
  <2> QED  BY <2>4, <2>5, <2>6 DEF IsOpened
<1>3. ASSUME NEW place, IsThere(opened, place)
      PROVE  IsThere(there, place)'
  BY <1>3, StillThere
<1>4. \A k \in Staying' : IsThere(there, <<k>>)'
  <2> TAKE k \in Staying'
  <2>1. CASE k \in Staying
    <3>1. IsThere(opened, <<k>>)
      BY <2>1 DEF AllIsThere
    <3> QED  BY <1>3, <3>1
  <2> QED  BY <2>1
<1>5. \A x \in Elements(agenda') : x.do = "convert" => IsThere(there, x.temporary)'
  <2> SUFFICES ASSUME NEW x \in Elements(agenda'), x.do = "convert"
               PROVE  IsThere(there, x.temporary)'
    OBVIOUS
  <2>1. CASE x \in Elements(items)
    BY <2>1
  <2>2. CASE x \in Elements(agenda)
    <3>1. IsThere(opened, x.temporary)
      BY <2>2 DEF AllIsThere
    <3> QED  BY <1>3, <3>1
  <2> QED  BY <1>1, <2>1, <2>2
<1> QED  BY <1>2, <1>4, <1>5 DEF AllIsThere

(* Objects that have numbers keep them.                                    *)
LEMMA NumberedStill ==
  ASSUME NEW origin, NEW numbered, NumberedAsTold(origin, numbered), sctx' = sctx,
         Staying' = Staying, tell \in Nat, tell' \in Nat, tell <= tell',
         \A e \in numbered : e[1] \in DOMAIN objectsMap' /\ objectsMap'[e[1]] = objectsMap[e[1]],
         tell' = tell => \A e \in numbered : e[1] = tell =>
           agenda' # <<>> /\ Head(agenda').do \notin {"array", "element", "convert"}
  PROVE  NumberedAsTold(origin, numbered)'
<1>1. ASSUME NEW e \in numbered
      PROVE  /\ e[1] \in 2..tell' /\ e[1] \in DOMAIN objectsMap'
             /\ \E k \in Staying' : objectsMap'[e[1]] = <<k>> /\ origin[k] = e[2]
             /\ e[1] = tell' =>
                  agenda' # <<>> /\ Head(agenda').do \notin {"array", "element", "convert"}
  <2>1. e[1] \in 2..tell /\ \E k \in Staying : objectsMap[e[1]] = <<k>> /\ origin[k] = e[2]
    BY DEF NumberedAsTold
  <2>2. e[1] = tell' => tell' = tell
    BY <2>1
  <2> QED  BY <2>1, <2>2
<1>2. "checkRecursivePointers" \in sctx'.flags =>
        /\ \A k \in Staying' \ {0} : \E e \in numbered : e[2] = origin[k]
        /\ \A k, l \in Staying' : origin[k] = origin[l] => k = l
  BY DEF NumberedAsTold
<1> QED  BY <1>1, <1>2 DEF NumberedAsTold

(* What does not change of the slots still is as told.                     *)
LEMMA MemoryStill ==
  ASSUME NEW types, NEW origin, NEW later, Onward(origin, later), dead' = dead,
         MemoryAsTold(types, origin),
         \A slot \in DOMAIN memory' :
           \/ slot \in DOMAIN memory /\ memory'[slot] = memory[slot]
           \/ \E q, m : SlotIs(types, later, slot, q, m, memory[slot])'
  PROVE  MemoryAsTold(types, later)'
<1>1. ASSUME NEW slot \in DOMAIN memory'
      PROVE  \E q, m : SlotIs(types, later, slot, q, m, memory[slot])'
  <2>1. CASE slot \in DOMAIN memory /\ memory'[slot] = memory[slot]
    <3>1. PICK value : value = memory[slot]
      OBVIOUS
    <3>2. PICK q, m : SlotIs(types, origin, slot, q, m, value)
      BY <2>1, <3>1 DEF MemoryAsTold
    <3>3. q[1] \notin dead'
      BY <3>2 DEF SlotIs, Stands
    <3>4. SlotIs(types, later, slot, q, m, value)'
      BY <3>2, <3>3, SlotOn
    <3> QED  BY <2>1, <3>1, <3>4
  <2> QED  BY <1>1, <2>1
<1> QED  BY <1>1 DEF MemoryAsTold

(* What such a step does                                                   *)
Reads(types, origin, numbered, opened, letter, item, rest, items, there) ==
  /\ UNCHANGED <<pair, writerVars, dctx, made, dead, phase>> /\ item.do # "convert"
  /\ Replaced(items)
  /\ \A x \in Elements(items) :
       x.do # "convert" /\ IsItem(reader, dctx, made, x) /\ ItemReads(types, origin, x)
  /\ tell' \in Nat /\ tell <= tell'
  /\ Traces(letter, out, Tracing(Then(Places(origin, items), rest), tell', numbered),
            Tracing(<<>>, Len(out), Seen))
  /\ DOMAIN memory \subseteq DOMAIN memory'
  /\ \A slot \in DOMAIN memory' :
       \/ slot \in DOMAIN memory /\ memory'[slot] = memory[slot]
       \/ \E q, m : SlotIs(types, origin, slot, q, m, memory'[slot])
  /\ opened \subseteq there
  /\ item.do = "struct" => IsThere(there, item.at)'
  /\ item.do \in MemberKinds => MemberIsThere(there, item.at, item.member)'
  /\ \A q \in there \ opened : IsOpened(types, origin, there, q)'
  /\ \A e \in numbered : e[1] \in DOMAIN objectsMap' /\ objectsMap'[e[1]] = objectsMap[e[1]]
  /\ tell' = tell => \A e \in numbered : e[1] = tell =>
       agenda' # <<>> /\ Head(agenda').do \notin {"array", "element", "convert"}

(* A step of the reader that makes no object and converts none             *)
LEMMA ReaderReadsOn ==
  ASSUME ReaderHas, NEW types, NEW origin, NEW numbered, NEW opened, NEW letter, NEW c,
         NEW item, NEW rest,
         ReaderFinds(types, origin, numbered, opened, letter, c, item, rest),
         NEW items, NEW there,
         Reads(types, origin, numbered, opened, letter, item, rest, items, there)
  PROVE  ReadAsTold(types)'
<1>1. UNCHANGED <<pair, writerVars, dctx, made, dead, phase>> /\ item.do # "convert" /\ Replaced(items)
  BY DEF Reads
<1>2. \A x \in Elements(items) :
        x.do # "convert" /\ IsItem(reader, dctx, made, x) /\ ItemReads(types, origin, x)
  BY DEF Reads
<1>3. /\ tell' \in Nat /\ tell <= tell'
      /\ Traces(letter, out, Tracing(Then(Places(origin, items), rest), tell', numbered),
                Tracing(<<>>, Len(out), Seen))
  BY DEF Reads
<1>4. /\ DOMAIN memory \subseteq DOMAIN memory'
      /\ \A slot \in DOMAIN memory' :
           \/ slot \in DOMAIN memory /\ memory'[slot] = memory[slot]
           \/ \E q, m : SlotIs(types, origin, slot, q, m, memory'[slot])
  BY DEF Reads
<1>5. /\ opened \subseteq there
      /\ item.do = "struct" => IsThere(there, item.at)'
      /\ item.do \in MemberKinds => MemberIsThere(there, item.at, item.member)'
      /\ \A q \in there \ opened : IsOpened(types, origin, there, q)'
  BY DEF Reads
<1>6. /\ \A e \in numbered : e[1] \in DOMAIN objectsMap' /\ objectsMap'[e[1]] = objectsMap[e[1]]
      /\ tell' = tell => \A e \in numbered : e[1] = tell =>
           agenda' # <<>> /\ Head(agenda').do \notin {"array", "element", "convert"}
  BY DEF Reads
<1>7. item = Head(agenda) /\ phase = "read" /\ ReaderKnows(types, origin, numbered, opened)
  BY DEF ReaderFinds
<1>8. Temporaries' = Temporaries
  BY <1>7, <1>1, <1>2, TemporariesChange
<1>9. Staying' = Staying /\ Passing' = Passing
  BY <1>8, <1>1 DEF Staying, Passing
<1>10. UNCHANGED <<pair, graph, sctx, out, pointersMap>> /\ reader' = reader /\ writer' = writer
  BY <1>1 DEF writerVars, reader, writer
<1>11. Onward(origin, origin)
  BY <1>9, <1>10, <1>1 DEF Onward, ReaderHas
<1>12. Origins(origin)'
  BY <1>7, <1>9, <1>1 DEF ReaderKnows, Origins
<1>13. InTheirTime'
  BY <1>7, <1>1, <1>2, TimeGoesOn DEF ReaderKnows
<1>14. \A x \in Elements(items) : ItemReads(types, origin, x)'
  <2> TAKE x \in Elements(items)
  <2>1. ItemReads(types, origin, x) /\ x.do # "convert"
    BY <1>2
  <2>2. CASE x.do \in MemberKinds \cup {"struct"}
    <3>1. x.at[1] \notin dead'
      BY <1>1, <2>1, <2>2 DEF ItemReads, Stands
    <3> QED  BY <1>11, <2>1, <3>1, ItemOn
  <2>3. CASE x.do \notin MemberKinds \cup {"struct"}
    BY <2>1, <2>3 DEF ItemReads
  <2> QED  BY <2>2, <2>3
<1>15. MemoryAsTold(types, origin)'
  <2>1. ASSUME NEW slot \in DOMAIN memory', NEW q, NEW m,
               SlotIs(types, origin, slot, q, m, memory'[slot])
        PROVE  SlotIs(types, origin, slot, q, m, memory[slot])'
    <3>1. PICK value : value = memory'[slot]
      OBVIOUS
    <3>2. SlotIs(types, origin, slot, q, m, value)
      BY <2>1, <3>1
    <3>3. q[1] \notin dead'
      BY <1>1, <3>2 DEF SlotIs, Stands
    <3>4. SlotIs(types, origin, slot, q, m, value)'
      BY <1>11, <3>2, <3>3, SlotOn
    <3> QED  BY <3>1, <3>4
  <2>2. \A slot \in DOMAIN memory' :
           \/ slot \in DOMAIN memory /\ memory'[slot] = memory[slot]
           \/ \E q, m : SlotIs(types, origin, slot, q, m, memory[slot])'
    BY <1>4, <2>1
  <2>3. MemoryAsTold(types, origin)
    BY <1>7 DEF ReaderKnows
  <2>4. dead' = dead
    BY <1>1
  <2> QED  BY <1>11, <2>2, <2>3, <2>4, MemoryStill
<1>16. AllIsThere(types, origin, there)'
  <2>1. AllIsThere(types, origin, opened)
    BY <1>7 DEF ReaderKnows
  <2>2. \A x \in Elements(items) : x.do = "convert" => IsThere(there, x.temporary)'
    BY <1>2
  <2>3. \A k \in Staying' \ Staying : IsThere(there, <<k>>)'
    BY <1>9
  <2>4. PICK head : head = Head(agenda)
    OBVIOUS
  <2>5. head = item
    BY <1>7, <2>4
  <2>6. /\ dead' = dead /\ Replaced(items) /\ opened \subseteq there
        /\ DOMAIN memory \subseteq DOMAIN memory' /\ head.do # "convert"
    BY <1>1, <1>4, <1>5, <2>5
  <2>7. head.do = "struct" => IsThere(there, head.at)'
    BY <1>5, <2>5
  <2>8. head.do \in MemberKinds => MemberIsThere(there, head.at, head.member)'
    BY <1>5, <2>5
  <2>9. \A q \in there \ opened : IsOpened(types, origin, there, q)'
    BY <1>5
  <2> QED  BY <1>11, <2>1, <2>2, <2>3, <2>4, <2>6, <2>7, <2>8, <2>9, AllStillThere
<1>17. NumberedAsTold(origin, numbered)'
  <2>1. NumberedAsTold(origin, numbered) /\ tell \in Nat
    BY <1>7 DEF ReaderKnows, ReaderHas
  <2>2. tell' \in Nat /\ tell <= tell'
    BY <1>3
  <2>3. sctx' = sctx /\ Staying' = Staying
    BY <1>9, <1>10
  <2>4. \A e \in numbered : e[1] \in DOMAIN objectsMap' /\ objectsMap'[e[1]] = objectsMap[e[1]]
    BY <1>6
  <2>5. tell' = tell => \A e \in numbered : e[1] = tell =>
           agenda' # <<>> /\ Head(agenda').do \notin {"array", "element", "convert"}
    BY <1>6
  <2> QED  BY <2>1, <2>2, <2>3, <2>4, <2>5, NumberedStill
<1>18. phase' = "read" /\ dead' = dead /\ Replaced(items)
  BY <1>7, <1>1
<1>19. \A x \in Elements(items) : IsItem(reader, dctx, made, x)
  BY <1>2
<1>20. Traces(letter, out, Tracing(Then(Places(origin, items), rest), tell', numbered),
              Tracing(<<>>, Len(out), Seen))
  BY <1>3
<1> QED  BY <1>20, <1>11, <1>12, <1>13, <1>14, <1>15, <1>16, <1>17, <1>18, <1>19, ReaderToldOn

(* Where what stands comes from                                            *)
LEMMA StandsIs ==
  ASSUME NEW types, NEW origin, Origins(origin), TypedBy(writer, graph, types), NEW p,
         Stands(types, origin, p), NEW T, T = TypeOf(types, origin, p)
  PROVE  /\ IsPlace(p) /\ p[1] \in 0..made /\ IsPlace(origin[p[1]])
         /\ Sent(origin, p) \in DOMAIN types /\ types[Sent(origin, p)] = T
         /\ T \in DOMAIN writer.private /\ CanHold(reader, T)
         /\ \A name, j : Sent(origin, Part(p, name, j)) = Part(Sent(origin, p), name, j)
<1>1. /\ IsPlace(p) /\ p[1] \in (0..made) \ dead /\ Sent(origin, p) \in DOMAIN types
      /\ CanHold(reader, T) /\ types[Sent(origin, p)] = T
  BY DEF Stands, TypeOf
<1>2. IsPlace(origin[p[1]])
  BY <1>1 DEF Origins
<1>3. T \in DOMAIN writer.private
  BY <1>1 DEF TypedBy
<1>4. \A name, j : Sent(origin, Part(p, name, j)) = Part(Sent(origin, p), name, j)
  BY <1>1, <1>2, SentPart
<1> QED  BY <1>1, <1>2, <1>3, <1>4

(* What a member on the reader's agenda is                                 *)
LEMMA MemberReadsIs ==
  ASSUME ReaderHas, NEW types, TypedBy(writer, graph, types), NEW origin, NEW numbered, NEW opened,
         NEW letter, NEW c, NEW item, NEW rest,
         ReaderFinds(types, origin, numbered, opened, letter, c, item, rest),
         item.do \in MemberKinds, NEW m, m = item.member, NEW T, T = TypeOf(types, origin, item.at)
  PROVE  /\ Stands(types, origin, item.at) /\ item.from = item.at /\ item.do = m.kind
         /\ m \in ToSet(MessageMembers(reader, T, c)) /\ Fits(reader, T, c)
         /\ m.name \in Lasting(reader, T, c) \/ IsTemporary(item.at)
         /\ MemberInMessage(reader, dctx, m) /\ item.at[1] \in 0..made
         /\ IsPlace(item.at) /\ IsPlace(origin[item.at[1]])
         /\ T \in DOMAIN writer.private /\ types[Sent(origin, item.at)] = T
         /\ Sent(origin, item.at) \in DOMAIN types
         /\ \A name, j : Sent(origin, Part(item.at, name, j)) = Part(Sent(origin, item.at), name, j)
<1>1. /\ ReaderKnows(types, origin, numbered, opened) /\ ItemReads(types, origin, item)
      /\ c = sctx.version /\ item = Head(agenda) /\ IsSequence(agenda) /\ agenda # <<>>
  BY DEF ReaderFinds
<1>2. Stands(types, origin, item.at) /\ MemberReads(types, origin, item)
  BY <1>1 DEF ItemReads
<1>3. /\ item.from = item.at /\ m \in ToSet(MessageMembers(reader, T, c))
      /\ m.name \in Lasting(reader, T, c) \/ IsTemporary(item.at)
  BY <1>1, <1>2 DEF MemberReads
<1>4. Origins(origin)
  BY <1>1 DEF ReaderKnows
<1>5. /\ IsPlace(item.at) /\ item.at[1] \in 0..made /\ IsPlace(origin[item.at[1]])
      /\ Sent(origin, item.at) \in DOMAIN types /\ types[Sent(origin, item.at)] = T
      /\ T \in DOMAIN writer.private /\ CanHold(reader, T)
      /\ \A name, j : Sent(origin, Part(item.at, name, j)) = Part(Sent(origin, item.at), name, j)
  <2>1. PICK p : p = item.at
    OBVIOUS
  <2>2. Stands(types, origin, p) /\ T = TypeOf(types, origin, p) /\ Origins(origin)
    BY <1>2, <1>4, <2>1
  <2>3. /\ IsPlace(p) /\ p[1] \in 0..made /\ IsPlace(origin[p[1]])
        /\ Sent(origin, p) \in DOMAIN types /\ types[Sent(origin, p)] = T
        /\ T \in DOMAIN writer.private /\ CanHold(reader, T)
        /\ \A name, j : Sent(origin, Part(p, name, j)) = Part(Sent(origin, p), name, j)
    BY <2>2, StandsIs
  <2> QED  BY <2>1, <2>3
<1>6. Fits(reader, T, c)
  BY <1>1, <1>5 DEF CanHold, Fits
<1>7. IsItem(reader, dctx, made, item)
  BY <1>1, TailElements DEF ReaderHas
<1>8. item.do = m.kind /\ MemberInMessage(reader, dctx, m)
  BY <1>7, ItemIsMember
<1> QED  BY <1>2, <1>3, <1>5, <1>6, <1>8

(* What the writer says of the parts and pointers of a struct that is read *)
LEMMA MemberIsTyped ==
  ASSUME NEW types, TypedBy(writer, graph, types), NEW c,
         Plain(writer, c), Plain(reader, c), SameStructs(writer, reader, c),
         NEW place \in DOMAIN types, NEW T, T = types[place], Fits(reader, T, c),
         NEW m \in ToSet(MessageMembers(reader, T, c)),
         NEW target, target = At(graph, Part(place, m.name, 1))
  PROVE  /\ m.kind \in {"member", "array"} =>
              \A j \in 1..m.n : /\ Part(place, m.name, j) \in DOMAIN types
                                /\ types[Part(place, m.name, j)] = m.type
         /\ m.kind = "pointer" /\ target # Null =>
              target \in DOMAIN types /\ types[target] = m.type
         /\ Fits(writer, T, c)
<1>1. T \in DOMAIN writer.private
  BY DEF TypedBy
<1>2. Fits(writer, T, c)
  BY <1>1, SameMessage
<1>3. PICK k \in ToSet(MessageMembers(writer, T, c)) :
        k.name = m.name /\ k.kind = m.kind /\ k.type = m.type /\ k.n = m.n
  BY <1>1, MemberOfBoth
<1>4. target = At(graph, Part(place, k.name, 1))
  BY <1>3
<1>5. /\ k.kind \in {"member", "array"} =>
              \A j \in 1..k.n : /\ Part(place, k.name, j) \in DOMAIN types
                                /\ types[Part(place, k.name, j)] = k.type
      /\ k.kind = "pointer" /\ target # Null =>
              target \in DOMAIN types /\ types[target] = k.type
  BY <1>2, <1>4, PartIsTyped
<1> QED  BY <1>2, <1>3, <1>5

(* A struct that is part of one that is read can be read.                  *)
LEMMA SubStructReads ==
  ASSUME ReaderHas, NEW types, TypedBy(writer, graph, types), NEW origin, NEW numbered, NEW opened,
         NEW letter, NEW c, NEW item, NEW rest,
         ReaderFinds(types, origin, numbered, opened, letter, c, item, rest),
         item.do \in {"member", "array"}, NEW m, m = item.member,
         NEW j \in 1..m.n, NEW x, x = SubStruct(reader, item, j)
  PROVE  /\ ItemReads(types, origin, x) /\ Stands(types, origin, x.at)
         /\ Fits(reader, m.type, c) /\ TypeOf(types, origin, x.at) = m.type
         /\ x.do = "struct" /\ x.type = m.type /\ x.version = m.version
         /\ x.at = Part(item.at, m.name, j) /\ x.from = x.at
         /\ m.version \in ToSet(reader.private[m.type])
         /\ getBestCompatInterfaceVersion(reader, m.type, m.version, c) = VersionAt(reader, m.type, c)
<1>1. PICK T : T = TypeOf(types, origin, item.at)
  OBVIOUS
<1>2. item.do \in MemberKinds
  BY DEF MemberKinds
<1>3. /\ Stands(types, origin, item.at) /\ item.from = item.at /\ item.do = m.kind
      /\ m \in ToSet(MessageMembers(reader, T, c)) /\ Fits(reader, T, c)
      /\ IsPlace(item.at) /\ types[Sent(origin, item.at)] = T
      /\ Sent(origin, item.at) \in DOMAIN types
      /\ Sent(origin, Part(item.at, m.name, j)) = Part(Sent(origin, item.at), m.name, j)
  BY <1>1, <1>2, MemberReadsIs
<1>4. Plain(writer, c) /\ Plain(reader, c) /\ SameStructs(writer, reader, c) /\ c = sctx.version
  BY DEF ReaderFinds
<1>5. m.kind \in {"member", "array"}
  BY <1>3
<1>6. Fits(reader, m.type, c) /\ m.version \in ToSet(reader.private[m.type])
  <2>1. m.kind # "number"
    BY <1>5
  <2> QED  BY <1>3, <1>4, <1>5, <2>1, MessageMembersAre
<1>7. /\ getBestCompatInterfaceVersion(reader, m.type, m.version, c) = VersionAt(reader, m.type, c)
      /\ HandedOn(reader, m.type, m.version, c) = Lasting(reader, m.type, c)
  BY <1>3, <1>4, <1>5, PartLasts
<1>8. /\ x.do = "struct" /\ x.type = m.type /\ x.version = m.version
      /\ x.at = Part(item.at, m.name, j) /\ x.from = Part(item.from, m.name, j)
  BY SubStructIs
<1>9. Sent(origin, x.at) \in DOMAIN types /\ types[Sent(origin, x.at)] = m.type
  <2>1. PICK place, target : place = Sent(origin, item.at)
                             /\ target = At(graph, Part(place, m.name, 1))
    OBVIOUS
  <2>2. \A i \in 1..m.n : /\ Part(place, m.name, i) \in DOMAIN types
                          /\ types[Part(place, m.name, i)] = m.type
    BY <1>3, <1>4, <1>5, <2>1, MemberIsTyped
  <2> QED  BY <1>3, <1>8, <2>1, <2>2
<1>10. TypeOf(types, origin, x.at) = m.type
  BY <1>9 DEF TypeOf
<1>11. Stands(types, origin, x.at)
  <2>1. IsPlace(x.at) /\ x.at[1] = item.at[1]
    BY <1>3, <1>8, PartIsPlace
  <2>2. item.at[1] \in (0..made) \ dead
    BY <1>3 DEF Stands
  <2>3. CanHold(reader, m.type)
    BY <1>4, <1>6 DEF Fits, CanHold
  <2> QED  BY <1>9, <1>10, <2>1, <2>2, <2>3 DEF Stands
<1>12. StructReads(types, origin, x)
  BY <1>3, <1>4, <1>7, <1>8, <1>10 DEF StructReads
<1>13. ItemReads(types, origin, x)
  BY <1>8, <1>11, <1>12 DEF ItemReads, MemberKinds
<1> QED  BY <1>3, <1>6, <1>7, <1>8, <1>10, <1>11, <1>13

(* A struct that is read next is there.                                    *)
LEMMA ComesNow ==
  ASSUME NEW items, Replaced(items), NEW x \in Elements(items), x.do \in {"struct", "convert"},
         NEW place, place = x.at, NEW there
  PROVE  IsThere(there, place)'
<1>1. x \in Elements(agenda')
  BY ReplacedIs
<1>2. StructComes(place)'
  BY <1>1 DEF StructComes
<1> QED  BY <1>2 DEF IsThere

(* A new object has its number until its first member is read.             *)
LEMMA NoneNumberedNow ==
  ASSUME NEW origin, NEW numbered, NumberedAsTold(origin, numbered), NEW head, head = Head(agenda),
         head.do \in {"array", "element", "convert"}
  PROVE  \A e \in numbered : e[1] # tell
BY DEF NumberedAsTold

(* A step that numbers nothing keeps the numbers.                          *)
LEMMA NumbersKept ==
  ASSUME NEW origin, NEW numbered, NumberedAsTold(origin, numbered), objectsMap' = objectsMap
  PROVE  \A e \in numbered : e[1] \in DOMAIN objectsMap' /\ objectsMap'[e[1]] = objectsMap[e[1]]
BY DEF NumberedAsTold

(* What the next token tells of what comes next                            *)
LEMMA ReaderIsTold ==
  ASSUME NEW letter, NEW s, NEW rest, IsSequence(rest), NEW numbered, NEW at,
         Traces(letter, out, Tracing(First(s, rest), at, numbered), Tracing(<<>>, Len(out), Seen)),
         NEW x, x = Tracing(First(s, rest), at, numbered)
  PROVE  /\ FacingWith(x, s, rest, at, numbered)
         /\ Tells(letter, out, x)
         /\ Traces(letter, out, Traced(letter, out, x), Tracing(<<>>, Len(out), Seen))
<1>1. FacingWith(x, s, rest, at, numbered)
  BY TracingFaces
<1>2. x.todo # <<>>
  BY <1>1 DEF FacingWith, Facing
<1>3. x # Tracing(<<>>, Len(out), Seen)
  BY <1>2 DEF Tracing
<1>4. Tells(letter, out, x)
      /\ Traces(letter, out, Traced(letter, out, x), Tracing(<<>>, Len(out), Seen))
  BY <1>2, <1>3, MustTell
<1> QED  BY <1>1, <1>4

(* Only arrays are of several.                                             *)
LEMMA OneOfIt ==
  ASSUME NEW b, NEW c, Plain(b, c), NEW T, Fits(b, T, c),
         NEW m \in ToSet(MessageMembers(b, T, c)), m.kind # "array"
  PROVE  m.n = 1
<1>1. PlainLayout(b.layout[T][VersionAt(b, T, c)])
  BY MessageMembersAre
<1>2. m \in ToSet(b.layout[T][VersionAt(b, T, c)].members)
  BY DEF MessageMembers
<1> QED  BY <1>1, <1>2 DEF PlainLayout

(* A call that reads a part is replaced by that of its struct.             *)
LEMMA DeserializeMemberTells ==
  ASSUME PlainStructs, OneHistory, ReadingInv, NEW types, TypedBy(writer, graph, types),
         ReadAsTold(types), DeserializeMember
  PROVE  ReadAsTold(types)'
<1>1. /\ phase = "read" /\ agenda # <<>> /\ Head(agenda).do = "member"
      /\ Continue(<<SubStruct(reader, Head(agenda), 1)>>)
      /\ UNCHANGED <<pair, writerVars, readerVars>>
  BY DEF DeserializeMember, Doing
<1>2. PICK item : item = Head(agenda)
  OBVIOUS
<1>3. PICK origin, numbered, opened, letter, c, rest :
        ReaderHas /\ ReaderFinds(types, origin, numbered, opened, letter, c, item, rest)
  BY <1>1, <1>2, ReaderFindsIt
<1>4. PICK m, T, x, items : /\ m = item.member /\ T = TypeOf(types, origin, item.at)
                            /\ x = SubStruct(reader, item, 1) /\ items = <<x>>
  OBVIOUS
<1>5. item.do = "member" /\ item.do \in MemberKinds /\ item.do \in {"member", "array"}
  BY <1>1, <1>2 DEF MemberKinds
<1>6. /\ item.from = item.at /\ item.do = m.kind /\ m \in ToSet(MessageMembers(reader, T, c))
      /\ Fits(reader, T, c) /\ IsPlace(item.at) /\ IsPlace(origin[item.at[1]])
  BY <1>3, <1>4, <1>5, MemberReadsIs
<1>7. m.n = 1
  <2>1. Plain(reader, c)
    BY <1>3 DEF ReaderFinds
  <2> QED  BY <1>5, <1>6, <2>1, OneOfIt
<1>8. /\ ItemReads(types, origin, x) /\ x.do = "struct" /\ x.at = Part(item.at, m.name, 1)
  <2>1. 1 \in 1..m.n
    BY <1>7
  <2> QED  BY <1>3, <1>4, <1>5, <2>1, SubStructReads
<1>9. IsItem(reader, dctx, made, item) /\ IsSequence(agenda)
      /\ Traces(letter, out, Tracing(Then(ItemPlaces(origin, item), rest), tell, numbered),
                Tracing(<<>>, Len(out), Seen))
      /\ ReaderKnows(types, origin, numbered, opened)
  BY <1>1, <1>3, <1>2, TailElements DEF ReaderFinds, ReaderHas
<1>10. IsItem(reader, dctx, made, x)
  BY <1>4, <1>5, <1>9, SubStructIsItem
<1>11. IsSequence(items) /\ Elements(items) = {x}
  BY <1>4, AgendaOfOne
<1>12. Replaced(items) /\ phase' = phase /\ agenda' = items \o Tail(agenda)
  BY <1>1, <1>2, <1>4, <1>9, <1>11 DEF Replaced, Continue
<1>13. Places(origin, items) = ItemPlaces(origin, item)
  BY <1>4, <1>5, <1>6, <1>9, PlacesOfPart
<1>14. Traces(letter, out, Tracing(Then(Places(origin, items), rest), tell', numbered),
              Tracing(<<>>, Len(out), Seen))
  BY <1>1, <1>9, <1>13 DEF readerVars
<1>15. MemberIsThere(opened, item.at, m)'
  <2>1. PICK place : place = Part(item.at, m.name, 1)
    OBVIOUS
  <2>2. IsThere(opened, place)'
    BY <1>8, <1>11, <1>12, <2>1, ComesNow
  <2>3. \A j \in 1..m.n : IsThere(opened, Part(item.at, m.name, j))'
    BY <1>7, <2>1, <2>2
  <2> QED  BY <1>5, <1>6, <2>3 DEF MemberIsThere
<1>16. /\ \A e \in numbered : e[1] \in DOMAIN objectsMap' /\ objectsMap'[e[1]] = objectsMap[e[1]]
       /\ agenda' # <<>> /\ Head(agenda').do \notin {"array", "element", "convert"}
  <2>1. NumberedAsTold(origin, numbered) /\ objectsMap' = objectsMap
    BY <1>1, <1>9 DEF ReaderKnows, readerVars
  <2>2. Len(items) = 1 /\ items[1] = x
    BY <1>4
  <2>3. Len(agenda') >= 1 /\ agenda'[1] = x
    BY <1>12, <2>2, ReplacedIs
  <2>4. agenda' # <<>> /\ Head(agenda') = x
    BY <2>3, HeadIs
  <2> QED  BY <1>8, <2>1, <2>4, NumbersKept
<1>17. tell' \in Nat /\ tell <= tell'
  BY <1>1, <1>3 DEF ReaderHas, readerVars
<1>18. UNCHANGED <<pair, writerVars, dctx, made, dead, phase>> /\ memory' = memory
  BY <1>1, <1>12 DEF readerVars
<1>19. \A y \in Elements(items) : y.do # "convert" /\ IsItem(reader, dctx, made, y)
                                   /\ ItemReads(types, origin, y)
  BY <1>8, <1>10, <1>11
<1>20. \A slot \in DOMAIN memory' : slot \in DOMAIN memory /\ memory'[slot] = memory[slot]
  BY <1>18
<1>21. item.do # "convert" /\ item.do # "struct" /\ opened \subseteq opened
  BY <1>5
<1>22. item.do \in MemberKinds => MemberIsThere(opened, item.at, item.member)'
  BY <1>4, <1>15
<1>23. Reads(types, origin, numbered, opened, letter, item, rest, items, opened)
  BY <1>12, <1>14, <1>16, <1>17, <1>18, <1>19, <1>20, <1>21, <1>22 DEF Reads
<1> QED  BY <1>3, <1>23, ReaderReadsOn

(* A call of the reader that makes no others                               *)
LEMMA NothingComes ==
  ASSUME ReaderHas, NEW types, NEW origin, NEW numbered, NEW opened, NEW letter, NEW c, NEW item, NEW rest,
         ReaderFinds(types, origin, numbered, opened, letter, c, item, rest), Continue(<<>>),
         NEW items, items = <<>>
  PROVE  /\ Replaced(items) /\ Elements(items) = {} /\ phase' = phase
         /\ Then(Places(origin, items), rest) = rest /\ IsSequence(rest)
<1>1. IsSequence(agenda) /\ agenda # <<>> /\ IsSequence(rest)
  BY DEF ReaderFinds
<1>2. IsSequence(items) /\ Elements(items) = {}
  BY AgendaOfOne
<1>3. agenda' = items \o Tail(agenda) /\ phase' = phase
  BY DEF Continue
<1>4. Places(origin, items) = <<>>
  BY PlacesOfNone
<1>5. Then(<<>>, rest) = rest
  BY <1>1, ThenIs
<1> QED  BY <1>1, <1>2, <1>3, <1>4, <1>5 DEF Replaced

(* An element of an array is numbered after what was read before it.       *)
LEMMA DeserializeElementTells ==
  ASSUME PlainStructs, OneHistory, ReadingInv, NEW types, ReadAsTold(types), DeserializeElement
  PROVE  ReadAsTold(types)'
<1>1. /\ phase = "read" /\ agenda # <<>> /\ Head(agenda).do = "element" /\ Continue(<<>>)
      /\ \/ objectsMap' = With(objectsMap, tell, Head(agenda).at)
         \/ objectsMap' = objectsMap
      /\ UNCHANGED <<pair, writerVars, dctx, tell, memory, made, dead>>
  BY DEF DeserializeElement, Doing
<1>2. PICK item : item = Head(agenda)
  OBVIOUS
<1>3. PICK origin, numbered, opened, letter, c, rest :
        ReaderHas /\ ReaderFinds(types, origin, numbered, opened, letter, c, item, rest)
  BY <1>1, <1>2, ReaderFindsIt
<1>4. PICK items : items = <<>>
  OBVIOUS
<1>5. /\ Replaced(items) /\ Elements(items) = {} /\ phase' = phase
      /\ Then(Places(origin, items), rest) = rest /\ IsSequence(rest)
  BY <1>1, <1>3, <1>4, NothingComes
<1>6. item.do = "element"
  BY <1>1, <1>2
<1>7. ItemPlaces(origin, item) = <<>>
  BY <1>6 DEF ItemPlaces, MemberKinds
<1>8. /\ Traces(letter, out, Tracing(Then(ItemPlaces(origin, item), rest), tell, numbered),
                Tracing(<<>>, Len(out), Seen))
      /\ ReaderKnows(types, origin, numbered, opened)
  BY <1>3 DEF ReaderFinds
<1>9. Then(<<>>, rest) = rest
  BY <1>5, ThenIs
<1>10. Traces(letter, out, Tracing(Then(Places(origin, items), rest), tell', numbered),
              Tracing(<<>>, Len(out), Seen))
  BY <1>1, <1>5, <1>7, <1>8, <1>9
<1>11. \A e \in numbered : e[1] # tell /\ e[1] \in DOMAIN objectsMap
  <2>1. NumberedAsTold(origin, numbered)
    BY <1>8 DEF ReaderKnows
  <2> QED  BY <1>2, <1>6, <2>1, NoneNumberedNow DEF NumberedAsTold
<1>12. \A e \in numbered : e[1] \in DOMAIN objectsMap' /\ objectsMap'[e[1]] = objectsMap[e[1]]
  BY <1>1, <1>11 DEF With
<1>13. tell' \in Nat /\ tell <= tell'
  BY <1>1, <1>3 DEF ReaderHas
<1>14. UNCHANGED <<pair, writerVars, dctx, made, dead, phase>> /\ memory' = memory
  BY <1>1, <1>5
<1>15. \A slot \in DOMAIN memory' : slot \in DOMAIN memory /\ memory'[slot] = memory[slot]
  BY <1>14
<1>16. item.do # "convert" /\ item.do # "struct" /\ item.do \notin MemberKinds /\ opened \subseteq opened
  BY <1>6 DEF MemberKinds
<1>17. Reads(types, origin, numbered, opened, letter, item, rest, items, opened)
  BY <1>5, <1>10, <1>11, <1>12, <1>13, <1>14, <1>15, <1>16 DEF Reads
<1> QED  BY <1>3, <1>17, ReaderReadsOn

(* A number is that of the writer.                                         *)
LEMMA DeserializeNumberTells ==
  ASSUME PlainStructs, OneHistory, ReadingInv, NEW types, TypedBy(writer, graph, types),
         ReadAsTold(types), DeserializeNumber
  PROVE  ReadAsTold(types)'
<1>1. /\ phase = "read" /\ agenda # <<>> /\ Head(agenda).do = "number"
      /\ UNCHANGED <<pair, writerVars, dctx, objectsMap, made>>
  BY DEF DeserializeNumber, Doing
<1>2. PICK item : item = Head(agenda)
  OBVIOUS
<1>3. PICK origin, numbered, opened, letter, c, rest :
        ReaderHas /\ ReaderFinds(types, origin, numbered, opened, letter, c, item, rest)
  BY <1>1, <1>2, ReaderFindsIt
<1>4. PICK m, T, from, slot, value, items :
        /\ m = item.member /\ T = TypeOf(types, origin, item.at) /\ from = Sent(origin, item.at)
        /\ slot = Part(item.at, m.name, 1) /\ value = out[tell + 1][2] /\ items = <<>>
  OBVIOUS
<1>5. CASE phase' = "idle"
  BY <1>5, StopTells
<1>6. CASE phase' # "idle"
  <2>1. memory' = With(memory, slot, value) /\ Read(1) /\ Continue(<<>>) /\ dead' = dead
    BY <1>2, <1>4, <1>6 DEF DeserializeNumber, Abandon, Stop
  <2>2. tell' = tell + 1
    BY <2>1 DEF Read
  <2>3. /\ Replaced(items) /\ Elements(items) = {} /\ phase' = phase
        /\ Then(Places(origin, items), rest) = rest /\ IsSequence(rest)
    BY <1>3, <1>4, <2>1, NothingComes
  <2>4. item.do = "number" /\ item.do \in MemberKinds
    BY <1>1, <1>2 DEF MemberKinds
  <2>5. /\ Stands(types, origin, item.at) /\ item.from = item.at /\ item.do = m.kind
        /\ m \in ToSet(MessageMembers(reader, T, c))
        /\ m.name \in Lasting(reader, T, c) \/ IsTemporary(item.at)
    BY <1>3, <1>4, <2>4, MemberReadsIs
  <2>6. ItemPlaces(origin, item) = <<NumberAt(from, m.name)>>
    BY <1>4, <2>4, <2>5 DEF ItemPlaces, MemberPlaces
  <2>7. Then(ItemPlaces(origin, item), rest) = First(NumberAt(from, m.name), rest)
    BY <2>3, <2>6, ThenIs
  <2>8. /\ Traces(letter, out, Tracing(Then(ItemPlaces(origin, item), rest), tell, numbered),
                  Tracing(<<>>, Len(out), Seen))
        /\ ReaderKnows(types, origin, numbered, opened) /\ letter = Letter(types) /\ c = sctx.version
    BY <1>3 DEF ReaderFinds
  <2>9. PICK s, x : s = NumberAt(from, m.name) /\ x = Tracing(First(s, rest), tell, numbered)
    OBVIOUS
  <2>10. /\ FacingWith(x, s, rest, tell, numbered) /\ Tells(letter, out, x)
         /\ Traces(letter, out, Traced(letter, out, x), Tracing(<<>>, Len(out), Seen))
    <3>1. Traces(letter, out, Tracing(First(s, rest), tell, numbered), Tracing(<<>>, Len(out), Seen))
      BY <2>7, <2>8, <2>9
    <3> QED  BY <2>3, <2>9, <3>1, ReaderIsTold
  <2>11. value = NumberSent(letter, from, m.name)
         /\ Traced(letter, out, x) = Tracing(rest, tell + 1, numbered)
    BY <1>4, <2>9, <2>10, NumberTells
  <2>12. Traces(letter, out, Tracing(Then(Places(origin, items), rest), tell', numbered),
                Tracing(<<>>, Len(out), Seen))
    BY <2>2, <2>3, <2>10, <2>11
  <2>13. SlotIs(types, origin, slot, item.at, m, value)
    <3>1. HoldsAsTold(types, origin, item.at, m, value)
      BY <1>4, <2>4, <2>5, <2>8, <2>11 DEF HoldsAsTold
    <3> QED  BY <1>4, <2>4, <2>5, <2>8, <3>1 DEF SlotIs
  <2>14. /\ DOMAIN memory' = DOMAIN memory \cup {slot} /\ memory'[slot] = value
         /\ \A y \in DOMAIN memory' \ {slot} : y \in DOMAIN memory /\ memory'[y] = memory[y]
    BY <2>1 DEF With
  <2>15. \A y \in DOMAIN memory' :
           \/ y \in DOMAIN memory /\ memory'[y] = memory[y]
           \/ \E q, k : SlotIs(types, origin, y, q, k, memory'[y])
    BY <2>13, <2>14
  <2>16. MemberIsThere(opened, item.at, m)'
    BY <1>4, <2>4, <2>5, <2>14 DEF MemberIsThere
  <2>17. tell' \in Nat /\ tell <= tell' /\ tell' # tell
    BY <1>3, <2>2 DEF ReaderHas
  <2>18. \A e \in numbered : e[1] \in DOMAIN objectsMap' /\ objectsMap'[e[1]] = objectsMap[e[1]]
    BY <1>1, <2>8, NumbersKept DEF ReaderKnows
  <2>19. UNCHANGED <<pair, writerVars, dctx, made, dead, phase>>
    BY <1>1, <2>1, <2>3
  <2>20. item.do # "convert" /\ item.do # "struct" /\ opened \subseteq opened
         /\ DOMAIN memory \subseteq DOMAIN memory'
    BY <2>4, <2>14
  <2>21. item.do \in MemberKinds => MemberIsThere(opened, item.at, item.member)'
    BY <1>4, <2>16
  <2>22. Reads(types, origin, numbered, opened, letter, item, rest, items, opened)
    BY <2>3, <2>12, <2>15, <2>17, <2>18, <2>19, <2>20, <2>21 DEF Reads
  <2> QED  BY <1>3, <2>22, ReaderReadsOn
<1> QED  BY <1>5, <1>6

-----------------------------------------------------------------------------
(* Structs and arrays.                                                     *)

(* What a struct on the reader's agenda is                                 *)
LEMMA StructReadsIs ==
  ASSUME ReaderHas, NEW types, TypedBy(writer, graph, types), NEW origin, NEW numbered, NEW opened,
         NEW letter, NEW c, NEW item, NEW rest,
         ReaderFinds(types, origin, numbered, opened, letter, c, item, rest),
         item.do = "struct", NEW T, T = item.type, NEW V, V = VersionAt(reader, T, c)
  PROVE  /\ Stands(types, origin, item.at) /\ item.from = item.at
         /\ TypeOf(types, origin, item.at) = T /\ types[Sent(origin, item.at)] = T
         /\ Sent(origin, item.at) \in DOMAIN types
         /\ IsPlace(item.at) /\ item.at[1] \in 0..made /\ IsPlace(origin[item.at[1]])
         /\ T \in DOMAIN writer.private /\ Fits(reader, T, c)
         /\ item.version \in ToSet(reader.private[T])
         /\ StructInMessage(reader, dctx, T, item.version)
         /\ VersionInMessage(reader, item, dctx) = V
         /\ getBestCompatInterfaceVersion(reader, T, item.version, c) = V
         /\ \/ HandedOn(reader, T, item.version, c) = Lasting(reader, T, c)
            \/ IsTemporary(item.at) /\ item.version = V
<1>1. /\ ReaderKnows(types, origin, numbered, opened) /\ ItemReads(types, origin, item)
      /\ c = sctx.version /\ item = Head(agenda) /\ IsSequence(agenda) /\ agenda # <<>>
  BY DEF ReaderFinds
<1>2. Stands(types, origin, item.at) /\ StructReads(types, origin, item)
  BY <1>1 DEF ItemReads
<1>3. /\ item.from = item.at /\ TypeOf(types, origin, item.at) = T
      /\ getBestCompatInterfaceVersion(reader, T, item.version, c) = V
      /\ \/ HandedOn(reader, T, item.version, c) = Lasting(reader, T, c)
         \/ IsTemporary(item.at) /\ item.version = V
  BY <1>1, <1>2 DEF StructReads
<1>4. /\ IsPlace(item.at) /\ item.at[1] \in 0..made /\ IsPlace(origin[item.at[1]])
      /\ Sent(origin, item.at) \in DOMAIN types /\ types[Sent(origin, item.at)] = T
      /\ T \in DOMAIN writer.private /\ CanHold(reader, T)
  <2>1. PICK p : p = item.at
    OBVIOUS
  <2>2. Stands(types, origin, p) /\ T = TypeOf(types, origin, p) /\ Origins(origin)
    BY <1>1, <1>2, <1>3, <2>1 DEF ReaderKnows
  <2>3. /\ IsPlace(p) /\ p[1] \in 0..made /\ IsPlace(origin[p[1]])
        /\ Sent(origin, p) \in DOMAIN types /\ types[Sent(origin, p)] = T
        /\ T \in DOMAIN writer.private /\ CanHold(reader, T)
    BY <2>2, StandsIs
  <2> QED  BY <2>1, <2>3
<1>5. Fits(reader, T, c)
  BY <1>1, <1>4 DEF CanHold, Fits
<1>6. IsItem(reader, dctx, made, item)
  BY <1>1, TailElements DEF ReaderHas
<1>7. StructInMessage(reader, dctx, T, item.version) /\ item.version \in ToSet(reader.private[T])
  BY <1>6, ItemIsStruct DEF StructInMessage
<1>8. VersionInMessage(reader, item, dctx) = V
  <2>1. PICK target : target = VersionInMessage(reader, item, dctx)
    OBVIOUS
  <2>2. IsBuild(reader) /\ dctx \in Contexts /\ dctx.version = c
    BY <1>1 DEF ReaderHas
  <2>3. getBestCompatInterfaceVersion(reader, item.type, item.version, dctx.version) = target
    BY <1>7, <2>1, <2>2, SymbolVersion
  <2> QED  BY <1>3, <2>1, <2>2, <2>3
<1> QED  BY <1>2, <1>3, <1>4, <1>5, <1>7, <1>8

(* The reader knows how a struct was sent.                                 *)
LEMMA ReaderSays ==
  ASSUME OneHistory, ReadingInv, ReaderHas, NEW types, NEW origin, NEW numbered, NEW opened,
         NEW letter, NEW c, NEW item, NEW rest,
         ReaderFinds(types, origin, numbered, opened, letter, c, item, rest),
         NEW from, NEW T, types[from] = T, T \in DOMAIN writer.private, Fits(reader, T, c),
         NEW V, V = VersionAt(reader, T, c)
  PROVE  /\ GoesAsBytes(letter, from) <=> SimplyAssigned(reader.layout[T][V], dctx)
         /\ PlacesAt(letter, from) = PlacesIn(MessageMembers(reader, T, c), from)
<1>1. /\ c = sctx.version /\ IsLetter(letter, types) /\ phase = "read" /\ agenda # <<>>
      /\ Plain(writer, c) /\ Plain(reader, c) /\ SameStructs(writer, reader, c)
  BY DEF ReaderFinds
<1>2. /\ GoesAsBytes(letter, from)
           <=> SimplyAssigned(writer.layout[T][VersionAt(writer, T, c)], sctx)
      /\ PlacesAt(letter, from) = PlacesIn(MessageMembers(writer, T, c), from)
  BY <1>1, LetterSays
<1>3. VersionAt(writer, T, c) = V
  BY <1>1, SameMessage
<1>4. V \in ToSet(reader.private[T]) /\ V <= c /\ T \in DOMAIN reader.private
  BY <1>1, VersionAtIs DEF Fits
<1>5. InBytes(writer, sctx, T, V) <=> SimplyAssigned(reader.layout[T][V], dctx)
  BY <1>1, <1>4, BothCopy
<1>6. PlacesIn(MessageMembers(writer, T, c), from) = PlacesIn(MessageMembers(reader, T, c), from)
  BY <1>1, SamePlaces
<1> QED  BY <1>2, <1>3, <1>5, <1>6 DEF InBytes

(* The structs that are copied stand beside one another.                   *)
Apart(structs, n, names) ==
  /\ IsSequence(structs) /\ n = Len(structs) /\ n \in Nat
  /\ names = Names(reader, structs[1].type, structs[1].version)
  /\ \A j \in 1..n : IsPlace(structs[j].at)
  /\ \A i, j \in 1..n : \A name \in names :
       StartsWith(Part(structs[j].at, name, 1), structs[i].at) => i = j

(* Each number that is copied goes to its own slot.                        *)
LEMMA CopiedAre ==
  ASSUME NEW structs, NEW n, NEW names, Apart(structs, n, names), NEW copied, copied = Copied(structs)
  PROVE  /\ DOMAIN memory \subseteq DOMAIN copied
         /\ \A j \in 1..n, name \in names :
              /\ Part(structs[j].at, name, 1) \in DOMAIN copied
              /\ copied[Part(structs[j].at, name, 1)] = out[tell + j][2][name]
         /\ \A slot \in DOMAIN copied :
              \/ slot \in DOMAIN memory /\ copied[slot] = memory[slot]
              \/ \E j \in 1..n : \E name \in names : slot = Part(structs[j].at, name, 1)
<1> DEFINE slots == {Part(structs[j].at, name, 1) : j \in 1..n, name \in names}
           number(slot) == CHOOSE j \in 1..n : StartsWith(slot, structs[j].at)
           value(slot) == out[tell + number(slot)][2][slot[Len(slot) - 1]]
<1>1. n = Len(structs) /\ names = Names(reader, structs[1].type, structs[1].version)
  BY DEF Apart
<1>2. copied = [slot \in DOMAIN memory \cup slots |->
                  IF slot \in slots THEN value(slot) ELSE memory[slot]]
  BY <1>1 DEF Copied
<1>3. ASSUME NEW j \in 1..n, NEW name \in names, NEW slot, slot = Part(structs[j].at, name, 1)
      PROVE  slot \in slots /\ value(slot) = out[tell + j][2][name]
  <2>1. slot \in slots
    BY <1>3
  <2>2. IsPlace(structs[j].at)
    BY DEF Apart
  <2>3. StartsWith(slot, structs[j].at) /\ slot[Len(slot) - 1] = name
    BY <1>3, <2>2, PartStartsWith
  <2>4. \A i \in 1..n : StartsWith(slot, structs[i].at) => i = j
    BY <1>3 DEF Apart
  <2>5. number(slot) = j
    BY <2>3, <2>4
  <2> HIDE DEF number, slots
  <2> QED  BY <2>1, <2>3, <2>5
<1>4. \A slot \in slots : \E j \in 1..n : \E name \in names : slot = Part(structs[j].at, name, 1)
  OBVIOUS
<1> HIDE DEF slots, number, value
<1>5. DOMAIN copied = DOMAIN memory \cup slots
  BY <1>2
<1>6. ASSUME NEW j \in 1..n, NEW name \in names
      PROVE  /\ Part(structs[j].at, name, 1) \in DOMAIN copied
             /\ copied[Part(structs[j].at, name, 1)] = out[tell + j][2][name]
  <2>1. PICK slot : slot = Part(structs[j].at, name, 1)
    OBVIOUS
  <2>2. slot \in slots /\ value(slot) = out[tell + j][2][name]
    BY <1>3, <2>1
  <2>3. slot \in DOMAIN copied /\ copied[slot] = value(slot)
    BY <1>2, <2>2
  <2> QED  BY <2>1, <2>2, <2>3
<1>7. ASSUME NEW slot \in DOMAIN copied, slot \notin slots
      PROVE  slot \in DOMAIN memory /\ copied[slot] = memory[slot]
  BY <1>2, <1>7
<1> QED  BY <1>4, <1>5, <1>6, <1>7

(* A number of a struct that came as bytes is as it was told.              *)
LEMMA BytesGive ==
  ASSUME NEW c, c = sctx.version, Plain(reader, c), NEW types, NEW letter, letter = Letter(types),
         NEW origin, NEW p, Stands(types, origin, p), NEW T, T = TypeOf(types, origin, p),
         Fits(reader, T, c), NEW V, V = VersionAt(reader, T, c),
         SimplyAssigned(reader.layout[T][V], dctx),
         Lasting(reader, T, c) = Names(reader, T, V) \/ IsTemporary(p),
         NEW name \in Names(reader, T, V), NEW value, value = NumberSent(letter, Sent(origin, p), name),
         NEW slot, slot = Part(p, name, 1)
  PROVE  \E q, m : SlotIs(types, origin, slot, q, m, value)
<1>1. /\ PlainLayout(reader.layout[T][V])
      /\ Names(reader, T, V) = {m.name : m \in ToSet(MessageMembers(reader, T, c))}
  BY MessageMembersAre
<1>2. PICK m \in ToSet(MessageMembers(reader, T, c)) : m.name = name
  BY <1>1
<1>3. m.kind = "number"
  <2>1. m \in ToSet(reader.layout[T][V].members)
    BY <1>2 DEF MessageMembers
  <2>2. reader.layout[T][V].tag # "none"
    BY DEF SimplyAssigned
  <2> QED  BY <1>1, <2>1, <2>2 DEF PlainLayout
<1>4. HoldsAsTold(types, origin, p, m, value)
  BY <1>2, <1>3 DEF HoldsAsTold
<1>5. m.name \in Lasting(reader, T, c) \/ IsTemporary(p)
  BY <1>2
<1>6. SlotIs(types, origin, slot, p, m, value)
  BY <1>2, <1>3, <1>4, <1>5 DEF SlotIs
<1> QED  BY <1>6

(* What stands stands on, if nothing is made or freed.                     *)
LEMMA StandsStill ==
  ASSUME UNCHANGED <<pair, writerVars, made, dead>>, NEW types, NEW origin, NEW p,
         Stands(types, origin, p)
  PROVE  Stands(types, origin, p)'
<1>1. reader' = reader /\ sctx' = sctx
  BY DEF reader, writerVars
<1> QED  BY <1>1 DEF Stands, CanHold, TypeOf

(* A struct is opened as its members are there.                            *)
LEMMA OpenedStill ==
  ASSUME UNCHANGED <<pair, writerVars, made, dead>>, NEW types, NEW origin, NEW there, NEW q,
         Stands(types, origin, q), NEW T, T = TypeOf(types, origin, q), NEW c, c = sctx.version,
         \A m \in ToSet(MessageMembers(reader, T, c)) :
           m.name \in Lasting(reader, T, c) => MemberIsThere(there, q, m)'
  PROVE  IsOpened(types, origin, there, q)'
<1>1. reader' = reader /\ sctx' = sctx
  BY DEF reader, writerVars
<1>2. Stands(types, origin, q)'
  BY StandsStill
<1> QED  BY <1>1, <1>2 DEF IsOpened

(* What the next token tells of a struct that is read                      *)
LEMMA StructIsTold ==
  ASSUME ReaderHas, NEW types, NEW origin, NEW numbered, NEW opened, NEW letter, NEW c,
         NEW item, NEW rest,
         ReaderFinds(types, origin, numbered, opened, letter, c, item, rest),
         item.do = "struct", item.from = item.at, NEW from, from = Sent(origin, item.at)
  PROVE  /\ GoesAsBytes(letter, from) =>
              /\ BytesTellOf(letter, out, from, tell + 1)
              /\ Traces(letter, out, Tracing(rest, tell + 1, numbered), Tracing(<<>>, Len(out), Seen))
         /\ ~GoesAsBytes(letter, from) =>
              Traces(letter, out, Tracing(Then(PlacesAt(letter, from), rest), tell, numbered),
                     Tracing(<<>>, Len(out), Seen))
<1>1. /\ Traces(letter, out, Tracing(Then(ItemPlaces(origin, item), rest), tell, numbered),
                Tracing(<<>>, Len(out), Seen))
      /\ IsSequence(rest) /\ tell \in Nat
  BY DEF ReaderFinds, ReaderHas
<1>2. PICK s, x : s = StructAt(from) /\ x = Tracing(First(s, rest), tell, numbered)
  OBVIOUS
<1>3. ItemPlaces(origin, item) = <<s>>
  BY <1>2, PlacesOfStruct
<1>4. Then(ItemPlaces(origin, item), rest) = First(s, rest)
  BY <1>1, <1>3, ThenIs
<1>5. Traces(letter, out, Tracing(First(s, rest), tell, numbered), Tracing(<<>>, Len(out), Seen))
  BY <1>1, <1>4
<1>6. /\ FacingWith(x, s, rest, tell, numbered) /\ Tells(letter, out, x)
      /\ Traces(letter, out, Traced(letter, out, x), Tracing(<<>>, Len(out), Seen))
  BY <1>1, <1>2, <1>5, ReaderIsTold
<1>7. CASE GoesAsBytes(letter, from)
  BY <1>1, <1>2, <1>6, <1>7, BytesTell
<1>8. CASE ~GoesAsBytes(letter, from)
  BY <1>2, <1>6, <1>8, MembersTell DEF Then
<1> QED  BY <1>7, <1>8

(* A struct that is copied                                                 *)
LEMMA StructIsTaken ==
  ASSUME PlainStructs, OneHistory, ReadingInv, NEW types, TypedBy(writer, graph, types),
         ReadAsTold(types), phase = "read", agenda # <<>>, NEW item, item = Head(agenda),
         item.do = "struct", VersionInMessage(reader, item, dctx) = item.version,
         UNCHANGED <<pair, writerVars, dctx, objectsMap, made>>,
         SimplyAssigned(Layout(reader, item), dctx), TakeBytes(<<item>>)
  PROVE  ReadAsTold(types)'
<1>1. CASE phase' = "idle"
  BY <1>1, StopTells
<1>2. CASE phase' # "idle"
  <2>1. PICK origin, numbered, opened, letter, c, rest :
          ReaderHas /\ ReaderFinds(types, origin, numbered, opened, letter, c, item, rest)
    BY ReaderFindsIt
  <2>2. PICK T, V, from, items, structs, names, there :
          /\ T = item.type /\ V = VersionAt(reader, T, c) /\ from = Sent(origin, item.at)
          /\ items = <<>> /\ structs = <<item>> /\ names = Names(reader, T, V)
          /\ there = opened \cup {item.at}
    OBVIOUS
  <2>3. /\ Stands(types, origin, item.at) /\ item.from = item.at
        /\ TypeOf(types, origin, item.at) = T /\ types[from] = T
        /\ IsPlace(item.at) /\ T \in DOMAIN writer.private /\ Fits(reader, T, c)
        /\ VersionInMessage(reader, item, dctx) = V
        /\ HandedOn(reader, T, item.version, c) = Lasting(reader, T, c) \/ IsTemporary(item.at)
    BY <2>1, <2>2, StructReadsIs
  <2>4. item.version = V
    BY <2>3
  <2>5. SimplyAssigned(reader.layout[T][V], dctx)
    BY <2>2, <2>4 DEF Layout
  <2>6. GoesAsBytes(letter, from)
    BY <2>1, <2>2, <2>3, <2>5, ReaderSays
  <2>7. /\ BytesTellOf(letter, out, from, tell + 1)
        /\ Traces(letter, out, Tracing(rest, tell + 1, numbered), Tracing(<<>>, Len(out), Seen))
    BY <2>1, <2>2, <2>3, <2>6, StructIsTold
  <2>8. /\ ExpectsBytes(structs) /\ memory' = Copied(structs) /\ tell' = tell + 1
        /\ Continue(<<>>) /\ dead' = dead
    BY <1>2, <2>2 DEF TakeBytes, Abandon, Stop, Read
  <2>9. structs[1] = item /\ Len(structs) = 1 /\ IsSequence(structs)
    BY <2>2, AgendaOfOne
  <2>10. DOMAIN out[tell + 1][2] = names
    BY <2>2, <2>4, <2>8, <2>9 DEF ExpectsBytes
  <2>11. /\ Replaced(items) /\ Elements(items) = {} /\ phase' = phase
         /\ Then(Places(origin, items), rest) = rest
    BY <2>1, <2>2, <2>8, NothingComes
  <2>12. Apart(structs, 1, names)
    <3>1. names = Names(reader, structs[1].type, structs[1].version)
      BY <2>2, <2>4, <2>9
    <3>2. \A i \in 1..1 : i = 1
      OBVIOUS
    <3> QED  BY <2>3, <2>9, <3>1, <3>2 DEF Apart
  <2>13. PICK copied : copied = memory' /\ copied = Copied(structs)
    BY <2>8
  <2>14. /\ DOMAIN memory \subseteq DOMAIN memory'
         /\ \A name \in names : /\ Part(item.at, name, 1) \in DOMAIN memory'
                                /\ memory'[Part(item.at, name, 1)] = out[tell + 1][2][name]
         /\ \A slot \in DOMAIN memory' :
              \/ slot \in DOMAIN memory /\ memory'[slot] = memory[slot]
              \/ \E name \in names : slot = Part(item.at, name, 1)
    <3>1. /\ DOMAIN memory \subseteq DOMAIN copied
          /\ \A j \in 1..1, name \in names :
               /\ Part(structs[j].at, name, 1) \in DOMAIN copied
               /\ copied[Part(structs[j].at, name, 1)] = out[tell + j][2][name]
          /\ \A slot \in DOMAIN copied :
               \/ slot \in DOMAIN memory /\ copied[slot] = memory[slot]
               \/ \E j \in 1..1 : \E name \in names : slot = Part(structs[j].at, name, 1)
      BY <2>12, <2>13, CopiedAre
    <3>2. 1 \in 1..1 /\ \A j \in 1..1 : j = 1
      OBVIOUS
    <3> QED  BY <2>9, <2>13, <3>1, <3>2
  <2>15. /\ c = sctx.version /\ Plain(reader, c) /\ letter = Letter(types)
         /\ ReaderKnows(types, origin, numbered, opened)
    BY <2>1 DEF ReaderFinds
  <2>16. Lasting(reader, T, c) = names \/ IsTemporary(item.at)
    <3>1. HandedOn(reader, T, V, c) = names
      BY <2>2, <2>3, <2>15, HandedOnAt
    <3> QED  BY <2>3, <2>4, <3>1
  <2>17. \A slot \in DOMAIN memory' :
           \/ slot \in DOMAIN memory /\ memory'[slot] = memory[slot]
           \/ \E q, m : SlotIs(types, origin, slot, q, m, memory'[slot])
    <3> SUFFICES ASSUME NEW name \in names, NEW slot, slot = Part(item.at, name, 1)
                 PROVE  \E q, m : SlotIs(types, origin, slot, q, m, memory'[slot])
      BY <2>14
    <3>1. PICK value, p : value = memory'[slot] /\ p = item.at
      OBVIOUS
    <3>2. value = NumberSent(letter, from, name)
      BY <2>7, <2>10, <2>14, <3>1 DEF BytesTellOf
    <3>3. \E q, m : SlotIs(types, origin, slot, q, m, value)
      <4>1. /\ Stands(types, origin, p) /\ T = TypeOf(types, origin, p)
            /\ Lasting(reader, T, c) = Names(reader, T, V) \/ IsTemporary(p)
            /\ value = NumberSent(letter, Sent(origin, p), name) /\ slot = Part(p, name, 1)
            /\ name \in Names(reader, T, V)
        BY <2>2, <2>3, <2>16, <3>1, <3>2
      <4> QED  BY <2>2, <2>3, <2>5, <2>15, <4>1, BytesGive
    <3> QED  BY <3>1, <3>3
  <2>18. IsOpened(types, origin, there, item.at)'
    <3>1. ASSUME NEW m \in ToSet(MessageMembers(reader, T, c))
          PROVE  MemberIsThere(there, item.at, m)'
      <4>1. m.name \in names /\ m.kind = "number"
        <5>1. /\ PlainLayout(reader.layout[T][V])
              /\ names = {k.name : k \in ToSet(MessageMembers(reader, T, c))}
          BY <2>2, <2>3, <2>15, MessageMembersAre
        <5>2. m \in ToSet(reader.layout[T][V].members)
          BY <2>2, <3>1 DEF MessageMembers
        <5>3. reader.layout[T][V].tag # "none"
          BY <2>5 DEF SimplyAssigned
        <5> QED  BY <3>1, <5>1, <5>2, <5>3 DEF PlainLayout
      <4> QED  BY <2>14, <4>1 DEF MemberIsThere
    <3>2. PICK q : q = item.at
      OBVIOUS
    <3>3. IsOpened(types, origin, there, q)'
      <4>1. Stands(types, origin, q) /\ T = TypeOf(types, origin, q)
        BY <2>3, <3>2
      <4>2. \A m \in ToSet(MessageMembers(reader, T, c)) :
              m.name \in Lasting(reader, T, c) => MemberIsThere(there, q, m)'
        BY <3>1, <3>2
      <4>3. UNCHANGED <<pair, writerVars, made, dead>>
        BY <2>8
      <4> QED  BY <2>15, <4>1, <4>2, <4>3, OpenedStill
    <3> QED  BY <3>2, <3>3
  <2>19. IsThere(there, item.at)'
    BY <2>2 DEF IsThere
  <2>20. \A e \in numbered : e[1] \in DOMAIN objectsMap' /\ objectsMap'[e[1]] = objectsMap[e[1]]
    BY <2>15, NumbersKept DEF ReaderKnows
  <2>21. tell' \in Nat /\ tell <= tell' /\ tell' # tell
    BY <2>1, <2>8 DEF ReaderHas
  <2>22. UNCHANGED <<pair, writerVars, dctx, made, dead, phase>>
    BY <2>8, <2>11
  <2>23. item.do # "convert" /\ item.do \notin MemberKinds /\ opened \subseteq there
         /\ \A q \in there \ opened : q = item.at
    BY <2>2 DEF MemberKinds
  <2>24. Traces(letter, out, Tracing(Then(Places(origin, items), rest), tell', numbered),
                Tracing(<<>>, Len(out), Seen))
    BY <2>7, <2>8, <2>11
  <2>25. \A q \in there \ opened : IsOpened(types, origin, there, q)'
    BY <2>18, <2>23
  <2>26. DOMAIN memory \subseteq DOMAIN memory'
    BY <2>14
  <2>27. Reads(types, origin, numbered, opened, letter, item, rest, items, there)
    BY <2>11, <2>17, <2>19, <2>20, <2>21, <2>22, <2>23, <2>24, <2>25, <2>26 DEF Reads
  <2> QED  BY <2>1, <2>27, ReaderReadsOn
<1> QED  BY <1>1, <1>2

(* What reads a member of a struct                                         *)
LEMMA MemberItems ==
  ASSUME NEW b, NEW item, NEW members, members = Layout(b, item).members, IsSequence(members),
         NEW items, items = MembersOf(b, item)
  PROVE  /\ Len(items) = Len(members)
         /\ \A i \in 1..Len(members) :
              /\ items[i].do = members[i].kind /\ items[i].member = members[i]
              /\ items[i].at = item.at /\ items[i].from = item.from
         /\ \A x \in Elements(items) : x.member \in Elements(members) /\ x.do = x.member.kind
                                         /\ x.at = item.at /\ x.from = item.from
         /\ \A m \in Elements(members) : \E x \in Elements(items) : x.member = m /\ x.do = m.kind /\ x.at = item.at
<1>1. DOMAIN members = 1..Len(members) /\ Len(members) \in Nat
  BY SequenceOfElements DEF IsSequence
<1>2. items = [i \in DOMAIN members |->
                 [do |-> members[i].kind, member |-> members[i],
                  at |-> item.at, from |-> item.from, kept |-> item.kept]]
  BY DEF MembersOf
<1>3. /\ Len(items) = Len(members)
      /\ \A i \in 1..Len(members) :
           /\ items[i].do = members[i].kind /\ items[i].member = members[i]
           /\ items[i].at = item.at /\ items[i].from = item.from
  BY <1>1, <1>2
<1> QED  BY <1>3 DEF Elements

(* A struct whose members are read one by one                              *)
LEMMA StructIsSplit ==
  ASSUME PlainStructs, OneHistory, ReadingInv, NEW types, TypedBy(writer, graph, types),
         ReadAsTold(types), phase = "read", agenda # <<>>, NEW item, item = Head(agenda),
         item.do = "struct", VersionInMessage(reader, item, dctx) = item.version,
         UNCHANGED <<pair, writerVars, readerVars>>,
         ~SimplyAssigned(Layout(reader, item), dctx), Continue(MembersOf(reader, item))
  PROVE  ReadAsTold(types)'
<1>1. PICK origin, numbered, opened, letter, c, rest :
        ReaderHas /\ ReaderFinds(types, origin, numbered, opened, letter, c, item, rest)
  BY ReaderFindsIt
<1>2. PICK T, V, from, items, members, there :
        /\ T = item.type /\ V = VersionAt(reader, T, c) /\ from = Sent(origin, item.at)
        /\ items = MembersOf(reader, item) /\ members = MessageMembers(reader, T, c)
        /\ there = opened \cup {item.at}
  OBVIOUS
<1>3. /\ Stands(types, origin, item.at) /\ item.from = item.at
      /\ TypeOf(types, origin, item.at) = T /\ types[from] = T
      /\ IsPlace(item.at) /\ T \in DOMAIN writer.private /\ Fits(reader, T, c)
      /\ VersionInMessage(reader, item, dctx) = V /\ item.version \in ToSet(reader.private[T])
      /\ HandedOn(reader, T, item.version, c) = Lasting(reader, T, c) \/ IsTemporary(item.at)
  BY <1>1, <1>2, StructReadsIs
<1>4. item.version = V
  BY <1>3
<1>5. Layout(reader, item).members = members /\ ~SimplyAssigned(reader.layout[T][V], dctx)
  BY <1>2, <1>4 DEF Layout, MessageMembers
<1>6. /\ c = sctx.version /\ Plain(reader, c) /\ letter = Letter(types)
      /\ ReaderKnows(types, origin, numbered, opened) /\ IsSequence(agenda) /\ IsSequence(rest)
  BY <1>1 DEF ReaderFinds
<1>7. /\ IsSequence(members) /\ ToSet(members) = Elements(members)
      /\ PlainLayout(reader.layout[T][V])
      /\ Names(reader, T, V) = {m.name : m \in ToSet(members)}
      /\ \A m \in ToSet(members) : m.kind \in MemberKinds
  BY <1>2, <1>3, <1>6, MessageMembersAre
<1>8. /\ Len(items) = Len(members)
      /\ \A i \in 1..Len(members) : items[i].do = members[i].kind
      /\ \A x \in Elements(items) : x.member \in Elements(members) /\ x.do = x.member.kind
                                      /\ x.at = item.at /\ x.from = item.from
      /\ \A m \in Elements(members) : \E x \in Elements(items) : x.member = m /\ x.do = m.kind /\ x.at = item.at
  BY <1>2, <1>5, <1>7, MemberItems
<1>9. /\ IsBuild(reader) /\ dctx \in Contexts /\ IsItem(reader, dctx, made, item) /\ tell \in Nat
  BY <1>1, <1>6, TailElements DEF ReaderHas
<1>10. IsSequence(items) /\ \A x \in Elements(items) : IsItem(reader, dctx, made, x) /\ x.do # "convert"
  BY <1>2, <1>9, MembersAreItems
<1>11. Replaced(items) /\ phase' = phase /\ agenda' = items \o Tail(agenda)
  BY <1>2, <1>6, <1>10 DEF Replaced, Continue
<1>12. ASSUME NEW x \in Elements(items)
       PROVE  ItemReads(types, origin, x)
  <2>1. x.member \in ToSet(members) /\ x.at = item.at /\ x.from = item.from /\ x.do \in MemberKinds
    BY <1>7, <1>8, <1>12
  <2>2. x.member.name \in Names(reader, T, V)
    BY <1>7, <2>1
  <2>3. x.member.name \in Lasting(reader, T, c) \/ IsTemporary(item.at)
    <3>1. HandedOn(reader, T, V, c) = Names(reader, T, V)
      BY <1>2, <1>3, <1>6, HandedOnAt
    <3> QED  BY <1>3, <1>4, <2>2, <3>1
  <2>4. MemberReads(types, origin, x)
    BY <1>2, <1>3, <1>6, <2>1, <2>3 DEF MemberReads
  <2>5. Stands(types, origin, x.at)
    BY <1>3, <2>1
  <2> QED  BY <2>1, <2>4, <2>5 DEF ItemReads, MemberKinds
<1>13. Traces(letter, out, Tracing(Then(Places(origin, items), rest), tell', numbered),
              Tracing(<<>>, Len(out), Seen))
  <2>1. ~GoesAsBytes(letter, from) /\ PlacesAt(letter, from) = PlacesIn(members, from)
    BY <1>1, <1>2, <1>3, <1>5, ReaderSays
  <2>2. Traces(letter, out, Tracing(Then(PlacesAt(letter, from), rest), tell, numbered),
               Tracing(<<>>, Len(out), Seen))
    BY <1>1, <1>2, <1>3, <2>1, StructIsTold
  <2>3. Places(origin, items) = PlacesIn(members, from)
    <3>1. item.type \in DOMAIN reader.private
      BY <1>2, <1>3 DEF Fits
    <3>2. Places(origin, MembersOf(reader, item))
            = PlacesIn(reader.layout[item.type][item.version].members, Sent(origin, item.from))
      BY <1>2, <1>3, <1>9, <3>1, PlacesOfMembers
    <3> QED  BY <1>2, <1>3, <1>5, <3>2 DEF Layout
  <2>4. tell' = tell
    BY DEF readerVars
  <2> QED  BY <2>1, <2>2, <2>3, <2>4
<1>14. IsOpened(types, origin, there, item.at)'
  <2>1. ASSUME NEW m \in ToSet(members)
        PROVE  MemberIsThere(there, item.at, m)'
    <3>1. PICK x \in Elements(items) : x.member = m /\ x.do = m.kind /\ x.at = item.at
      BY <1>7, <1>8, <2>1
    <3>2. x \in Elements(agenda') /\ x.do \in MemberKinds
      BY <1>7, <1>11, <2>1, <3>1, ReplacedIs
    <3>3. MemberComes(item.at, m)'
      BY <3>1, <3>2 DEF MemberComes
    <3> QED  BY <3>3 DEF MemberIsThere
  <2>2. PICK q : q = item.at
    OBVIOUS
  <2>3. /\ Stands(types, origin, q) /\ T = TypeOf(types, origin, q)
        /\ UNCHANGED <<pair, writerVars, made, dead>>
    BY <1>3, <2>2 DEF readerVars
  <2>4. \A m \in ToSet(MessageMembers(reader, T, c)) :
          m.name \in Lasting(reader, T, c) => MemberIsThere(there, q, m)'
    BY <1>2, <2>1, <2>2
  <2>5. IsOpened(types, origin, there, q)'
    BY <1>6, <2>3, <2>4, OpenedStill
  <2> QED  BY <2>2, <2>5
<1>15. agenda' # <<>> /\ Head(agenda').do \notin {"array", "element", "convert"}
  <2>1. members # <<>> /\ members[1].kind # "array"
    BY <1>2, <1>7 DEF PlainLayout, MessageMembers
  <2>2. Len(members) >= 1 /\ Len(members) \in Nat /\ members[1].kind \in MemberKinds
    <3>1. Len(members) \in Nat /\ Len(members) >= 1
      BY <1>7, <2>1, TailElements DEF IsSequence
    <3>2. members[1] \in ToSet(members)
      BY <1>7, <3>1 DEF Elements
    <3> QED  BY <1>7, <3>1, <3>2
  <2>3. /\ Len(agenda') = Len(items) + Len(Tail(agenda)) /\ Len(Tail(agenda)) \in Nat
        /\ \A i \in 1..Len(agenda') :
             agenda'[i] = IF i <= Len(items) THEN items[i] ELSE Tail(agenda)[i - Len(items)]
    <3>1. Len(Tail(agenda)) \in Nat
      BY <1>11, ReplacedIs DEF IsSequence
    <3> QED  BY <1>11, <3>1, ReplacedIs
  <2>4. agenda'[1] = items[1] /\ Len(agenda') >= 1
    BY <1>8, <2>2, <2>3
  <2>5. agenda'[1].do \notin {"array", "element", "convert"}
    BY <1>8, <2>1, <2>2, <2>4 DEF MemberKinds
  <2>6. agenda' # <<>>
    BY <2>4
  <2>7. Head(agenda') = agenda'[1]
    BY HeadIs
  <2> QED  BY <2>5, <2>6, <2>7
<1>16. IsThere(there, item.at)'
  BY <1>2 DEF IsThere
<1>17. \A e \in numbered : e[1] \in DOMAIN objectsMap' /\ objectsMap'[e[1]] = objectsMap[e[1]]
  <2>1. objectsMap' = objectsMap
    BY DEF readerVars
  <2> QED  BY <1>6, <2>1, NumbersKept DEF ReaderKnows
<1>18. tell' \in Nat /\ tell <= tell' /\ memory' = memory
  BY <1>9 DEF readerVars
<1>19. UNCHANGED <<pair, writerVars, dctx, made, dead, phase>>
  BY <1>11 DEF readerVars
<1>20. item.do # "convert" /\ item.do \notin MemberKinds /\ opened \subseteq there
       /\ \A q \in there \ opened : q = item.at
  BY <1>2 DEF MemberKinds
<1>21. \A q \in there \ opened : IsOpened(types, origin, there, q)'
  BY <1>14, <1>20
<1>22. \A slot \in DOMAIN memory' : slot \in DOMAIN memory /\ memory'[slot] = memory[slot]
  BY <1>18
<1>23. \A x \in Elements(items) :
         x.do # "convert" /\ IsItem(reader, dctx, made, x) /\ ItemReads(types, origin, x)
  BY <1>10, <1>12
<1>24. Reads(types, origin, numbered, opened, letter, item, rest, items, there)
  BY <1>11, <1>13, <1>15, <1>16, <1>17, <1>18, <1>19, <1>20, <1>21, <1>22, <1>23 DEF Reads
<1> QED  BY <1>1, <1>24, ReaderReadsOn

(* A struct of the version of the message                                  *)
LEMMA DeserializeStructTells ==
  ASSUME PlainStructs, OneHistory, ReadingInv, NEW types, TypedBy(writer, graph, types),
         ReadAsTold(types), DeserializeStruct
  PROVE  ReadAsTold(types)'
<1>1. PICK item : item = Head(agenda)
  OBVIOUS
<1>2. /\ phase = "read" /\ agenda # <<>> /\ item.do = "struct"
      /\ VersionInMessage(reader, item, dctx) = item.version
      /\ UNCHANGED <<pair, writerVars, dctx, objectsMap, made>>
  BY <1>1 DEF DeserializeStruct, Doing
<1>3. CASE phase' = "idle"
  BY <1>3, StopTells
<1>4. CASE SimplyAssigned(Layout(reader, item), dctx) /\ TakeBytes(<<item>>)
  BY <1>1, <1>2, <1>4, StructIsTaken
<1>5. CASE /\ ~SimplyAssigned(Layout(reader, item), dctx) /\ Continue(MembersOf(reader, item))
           /\ UNCHANGED <<memory, tell, dead>>
  <2>1. UNCHANGED <<pair, writerVars, readerVars>>
    BY <1>2, <1>5 DEF readerVars
  <2> QED  BY <1>1, <1>2, <1>5, <2>1, StructIsSplit
<1> QED  BY <1>1, <1>3, <1>4, <1>5 DEF DeserializeStruct, Abandon, Stop

(* The sequences that are put one after another are all there.             *)
LEMMA FlattenedHas ==
  ASSUME NEW seqs, Sequences(seqs)
  PROVE  \A i \in 1..Len(seqs) : Elements(seqs[i]) \subseteq Elements(FlattenSeq(seqs))
<1>1. PICK F : Gather(seqs, F)
  BY GatheringExists
<1>2. FlattenSeq(seqs) = F[Len(seqs)] /\ \A i \in 0..Len(seqs) : IsSequence(F[i])
  BY <1>1, Gathered
<1>3. \A i \in 1..Len(seqs) : F[i] = F[i - 1] \o seqs[i] /\ IsSequence(seqs[i])
  BY <1>1 DEF Gather, Sequences
<1>4. Len(seqs) \in Nat
  BY DEF Sequences, IsSequence
<1> DEFINE M == {m \in Nat : m <= Len(seqs) =>
                   \A i \in 1..m : Elements(seqs[i]) \subseteq Elements(F[m])}
<1>5. 0 \in M
  OBVIOUS
<1>6. ASSUME NEW m \in Nat, m \in M
      PROVE  m + 1 \in M
  <2> SUFFICES ASSUME m + 1 <= Len(seqs)
               PROVE  \A i \in 1..(m + 1) : Elements(seqs[i]) \subseteq Elements(F[m + 1])
    OBVIOUS
  <2>1. m + 1 \in 1..Len(seqs) /\ (m + 1) - 1 = m /\ m \in 0..Len(seqs)
    BY <1>4
  <2>2. F[m + 1] = F[m] \o seqs[m + 1] /\ IsSequence(seqs[m + 1]) /\ IsSequence(F[m])
    BY <1>2, <1>3, <2>1
  <2>3. Elements(F[m + 1]) = Elements(F[m]) \cup Elements(seqs[m + 1])
    BY <2>2, Concatenated
  <2>4. \A i \in 1..m : Elements(seqs[i]) \subseteq Elements(F[m])
    BY <1>6, <2>1
  <2>5. \A i \in 1..(m + 1) : i \in 1..m \/ i = m + 1
    OBVIOUS
  <2> HIDE DEF M
  <2> QED  BY <2>3, <2>4, <2>5
<1> HIDE DEF M
<1>7. Len(seqs) \in M
  BY <1>4, <1>5, <1>6, NumbersByInduction
<1> QED  BY <1>2, <1>4, <1>7 DEF M

(* The calls for an array are those for its elements.                      *)
LEMMA ElementsAreThose ==
  ASSUME NEW b, IsBuild(b), NEW ctx, NEW k, NEW item, IsItem(b, ctx, k, item), item.do = "array",
         NEW items, items = FlattenSeq(OneByOne(b, item)), NEW n, n = item.member.n
  PROVE  /\ \A x \in Elements(items) :
              x.do = "element" \/ \E j \in 1..n : x = SubStruct(b, item, j)
         /\ \A j \in 1..n : SubStruct(b, item, j) \in Elements(items)
<1>1. PICK seqs : seqs = OneByOne(b, item)
  OBVIOUS
<1>2. n \in Nat
  BY ArrayIs
<1>3. IsSequence(seqs) /\ Len(seqs) = n
  BY <1>1, <1>2 DEF OneByOne, IsSequence
<1> DEFINE Right == {x \in UNION {Elements(seqs[j]) : j \in 1..n} :
                       x.do = "element" \/ \E j \in 1..n : x = SubStruct(b, item, j)}
<1>4. ASSUME NEW j \in 1..n
      PROVE  IsSequence(seqs[j]) /\ Elements(seqs[j]) \subseteq Right
             /\ SubStruct(b, item, j) \in Elements(seqs[j])
  <2>1. PICK x, y : x = [do |-> "element", at |-> SubStruct(b, item, j).at] /\ y = SubStruct(b, item, j)
    OBVIOUS
  <2>2. seqs[j] = <<x, y>>
    BY <1>1, <2>1 DEF OneByOne
  <2>3. IsSequence(<<x, y>>) /\ Elements(<<x, y>>) = {x, y}
    <3>1. <<x, y>>[1] = x /\ <<x, y>>[2] = y /\ IsSequence(<<x, y>>) /\ Len(<<x, y>>) = 2
      BY DEF IsSequence
    <3>2. 1..2 = {1, 2}
      OBVIOUS
    <3> QED  BY <3>1, <3>2 DEF Elements
  <2>4. x.do = "element"
    BY <2>1
  <2>5. Elements(seqs[j]) = {x, y} /\ IsSequence(seqs[j])
    BY <2>2, <2>3
  <2>6. Elements(seqs[j]) \subseteq Right
    BY <2>1, <2>4, <2>5
  <2> QED  BY <2>1, <2>5, <2>6
<1>5. Elements(items) \subseteq Right
  <2> HIDE DEF Right
  <2> QED  BY <1>1, <1>3, <1>4, Flattened
<1>6. \A j \in 1..n : Elements(seqs[j]) \subseteq Elements(items)
  <2>1. Sequences(seqs)
    BY <1>3, <1>4 DEF Sequences
  <2> QED  BY <1>1, <1>3, <2>1, FlattenedHas
<1> QED  BY <1>4, <1>5, <1>6

(* A number of an element stands in no other.                              *)
LEMMA InOneElement ==
  ASSUME NEW p, IsPlace(p), NEW array, NEW i, NEW j, NEW name, NEW u, NEW q,
         u = Part(Part(p, array, j), name, 1), q = Part(p, array, i), StartsWith(u, q)
  PROVE  i = j
<1>1. PICK place : place = Part(p, array, j)
  OBVIOUS
<1>2. IsPlace(place)
  BY <1>1, PartIsPlace
<1>3. Len(place) = Len(p) + 2 /\ Len(p) \in Nat /\ place[Len(p) + 2] = j
  BY <1>1, PartIs
<1>4. Len(q) = Len(p) + 2 /\ q[Len(p) + 2] = i
  BY PartIs
<1>5. IsSequence(u) /\ Len(u) = Len(place) + 2 /\ \A k \in 1..Len(place) : u[k] = place[k]
  BY <1>1, <1>2, PartIs
<1>6. SubSeq(u, 1, Len(q)) = q
  BY DEF StartsWith
<1>7. u \in Seq(Elements(u))
  BY <1>5, SequenceOfElements
<1>8. SubSeq(u, 1, Len(q)) = [k \in 1..Len(q) |-> u[k]]
  BY <1>3, <1>4, <1>5, <1>7
<1>9. Len(p) + 2 \in 1..Len(q) /\ Len(p) + 2 \in 1..Len(place)
  BY <1>3, <1>4
<1>10. q[Len(p) + 2] = u[Len(p) + 2]
  BY <1>6, <1>8, <1>9
<1> QED  BY <1>3, <1>4, <1>5, <1>9, <1>10

(* A struct that came as bytes has its members.                            *)
LEMMA BytesOpen ==
  ASSUME UNCHANGED <<pair, writerVars, made, dead>>, NEW types, NEW origin, NEW there, NEW q,
         Stands(types, origin, q), NEW T, T = TypeOf(types, origin, q), NEW c, c = sctx.version,
         Plain(reader, c), Fits(reader, T, c), NEW V, V = VersionAt(reader, T, c),
         SimplyAssigned(reader.layout[T][V], dctx),
         \A name \in Names(reader, T, V) : Part(q, name, 1) \in DOMAIN memory'
  PROVE  IsOpened(types, origin, there, q)'
<1>1. ASSUME NEW m \in ToSet(MessageMembers(reader, T, c))
      PROVE  MemberIsThere(there, q, m)'
  <2>1. /\ PlainLayout(reader.layout[T][V])
        /\ Names(reader, T, V) = {k.name : k \in ToSet(MessageMembers(reader, T, c))}
    BY MessageMembersAre
  <2>2. m \in ToSet(reader.layout[T][V].members)
    BY <1>1 DEF MessageMembers
  <2>3. reader.layout[T][V].tag # "none"
    BY DEF SimplyAssigned
  <2>4. m.kind = "number"
    BY <2>1, <2>2, <2>3 DEF PlainLayout
  <2>5. Part(q, m.name, 1) \in DOMAIN memory'
    BY <1>1, <2>1
  <2> QED  BY <2>4, <2>5 DEF MemberIsThere
<1> QED  BY <1>1, OpenedStill

(* An array whose elements are read one by one                             *)
LEMMA ArrayIsSplit ==
  ASSUME PlainStructs, OneHistory, ReadingInv, NEW types, TypedBy(writer, graph, types),
         ReadAsTold(types), phase = "read", agenda # <<>>, NEW item, item = Head(agenda),
         item.do = "array", UNCHANGED <<pair, writerVars, readerVars>>,
         NEW items, items = FlattenSeq(OneByOne(reader, item)), Continue(items)
  PROVE  ReadAsTold(types)'
<1>1. PICK origin, numbered, opened, letter, c, rest :
        ReaderHas /\ ReaderFinds(types, origin, numbered, opened, letter, c, item, rest)
  BY ReaderFindsIt
<1>2. PICK m, T, n : m = item.member /\ T = TypeOf(types, origin, item.at) /\ n = m.n
  OBVIOUS
<1>3. item.do \in MemberKinds /\ item.do \in {"member", "array"}
  BY DEF MemberKinds
<1>4. /\ item.from = item.at /\ item.do = m.kind /\ IsPlace(item.at) /\ IsPlace(origin[item.at[1]])
  BY <1>1, <1>2, <1>3, MemberReadsIs
<1>5. /\ IsBuild(reader) /\ IsItem(reader, dctx, made, item) /\ IsSequence(agenda) /\ tell \in Nat
      /\ Traces(letter, out, Tracing(Then(ItemPlaces(origin, item), rest), tell, numbered),
                Tracing(<<>>, Len(out), Seen))
      /\ ReaderKnows(types, origin, numbered, opened)
  BY <1>1, TailElements DEF ReaderFinds, ReaderHas
<1>6. IsSequence(items) /\ \A x \in Elements(items) : IsItem(reader, dctx, made, x) /\ x.do # "convert"
  BY <1>5, ElementsAreItems
<1>7. /\ \A x \in Elements(items) :
           x.do = "element" \/ \E j \in 1..n : x = SubStruct(reader, item, j)
      /\ \A j \in 1..n : SubStruct(reader, item, j) \in Elements(items)
  BY <1>2, <1>5, ElementsAreThose
<1>8. Places(origin, items) = ItemPlaces(origin, item)
  BY <1>4, <1>5, PlacesOfElements
<1>9. Replaced(items) /\ phase' = phase
  BY <1>5, <1>6 DEF Replaced, Continue
<1>10. \A j \in 1..n : /\ ItemReads(types, origin, SubStruct(reader, item, j))
                       /\ SubStruct(reader, item, j).do = "struct"
                       /\ SubStruct(reader, item, j).at = Part(item.at, m.name, j)
  BY <1>1, <1>2, <1>3, SubStructReads
<1>11. \A x \in Elements(items) : ItemReads(types, origin, x)
  <2> TAKE x \in Elements(items)
  <2>1. CASE x.do = "element"
    BY <2>1 DEF ItemReads, MemberKinds
  <2>2. CASE \E j \in 1..n : x = SubStruct(reader, item, j)
    BY <1>10, <2>2
  <2> QED  BY <1>7, <2>1, <2>2
<1>12. MemberIsThere(opened, item.at, m)'
  <2>1. ASSUME NEW j \in 1..n
        PROVE  IsThere(opened, Part(item.at, m.name, j))'
    <3>1. PICK x, place : x = SubStruct(reader, item, j) /\ place = Part(item.at, m.name, j)
      OBVIOUS
    <3>2. x \in Elements(items) /\ x.do \in {"struct", "convert"} /\ place = x.at
      BY <1>7, <1>10, <3>1
    <3>3. IsThere(opened, place)'
      BY <1>9, <3>2, ComesNow
    <3> QED  BY <3>1, <3>3
  <2> QED  BY <1>2, <1>4, <2>1 DEF MemberIsThere
<1>13. \A e \in numbered : e[1] # tell /\ e[1] \in DOMAIN objectsMap' /\ objectsMap'[e[1]] = objectsMap[e[1]]
  <2>1. NumberedAsTold(origin, numbered) /\ objectsMap' = objectsMap
    BY <1>5 DEF ReaderKnows, readerVars
  <2> QED  BY <2>1, NoneNumberedNow, NumbersKept
<1>14. tell' \in Nat /\ tell <= tell' /\ memory' = memory /\ tell' = tell
  BY <1>5 DEF readerVars
<1>15. UNCHANGED <<pair, writerVars, dctx, made, dead, phase>>
  BY <1>9 DEF readerVars
<1>16. Traces(letter, out, Tracing(Then(Places(origin, items), rest), tell', numbered),
              Tracing(<<>>, Len(out), Seen))
  BY <1>5, <1>8, <1>14
<1>17. \A slot \in DOMAIN memory' : slot \in DOMAIN memory /\ memory'[slot] = memory[slot]
  BY <1>14
<1>18. item.do # "convert" /\ item.do # "struct" /\ opened \subseteq opened
  OBVIOUS
<1>19. item.do \in MemberKinds => MemberIsThere(opened, item.at, item.member)'
  BY <1>2, <1>12
<1>20. Reads(types, origin, numbered, opened, letter, item, rest, items, opened)
  BY <1>6, <1>9, <1>11, <1>13, <1>14, <1>15, <1>16, <1>17, <1>18, <1>19 DEF Reads
<1> QED  BY <1>1, <1>20, ReaderReadsOn

(* Bytes that were copied into the elements of an array                    *)
InARow(p, array, n, structs) ==
  /\ IsPlace(p) /\ n \in Nat /\ IsSequence(structs) /\ Len(structs) = n
  /\ \A j \in 1..n : structs[j].at = Part(p, array, j)

(* What a row of structs copied as bytes leaves in the memory              *)
TakenInARow(p, array, n, names, copied) ==
  /\ DOMAIN memory \subseteq DOMAIN copied
  /\ \A j \in 1..n : \A name \in names :
       /\ Part(Part(p, array, j), name, 1) \in DOMAIN copied
       /\ copied[Part(Part(p, array, j), name, 1)] = out[tell + j][2][name]
  /\ \A slot \in DOMAIN copied :
       \/ slot \in DOMAIN memory /\ copied[slot] = memory[slot]
       \/ \E j \in 1..n : \E name \in names : slot = Part(Part(p, array, j), name, 1)

(* Elements copied as bytes are taken in a row.                            *)
LEMMA ElementsCopied ==
  ASSUME NEW p, NEW array, NEW n, NEW structs, InARow(p, array, n, structs),
         NEW names, names = Names(reader, structs[1].type, structs[1].version),
         NEW copied, copied = Copied(structs)
  PROVE  TakenInARow(p, array, n, names, copied)
<1>1. /\ IsPlace(p) /\ n \in Nat /\ IsSequence(structs) /\ Len(structs) = n
      /\ \A j \in 1..n : structs[j].at = Part(p, array, j)
  BY DEF InARow
<1>2. \A j \in 1..n : IsPlace(structs[j].at)
  BY <1>1, PartIsPlace
<1>3. ASSUME NEW i \in 1..n, NEW j \in 1..n, NEW name \in names,
             StartsWith(Part(structs[j].at, name, 1), structs[i].at)
      PROVE  i = j
  <2>1. PICK u, q : u = Part(Part(p, array, j), name, 1) /\ q = Part(p, array, i)
    OBVIOUS
  <2>2. StartsWith(u, q)
    BY <1>1, <1>3, <2>1
  <2> QED  BY <1>1, <2>1, <2>2, InOneElement
<1>4. Apart(structs, n, names)
  BY <1>1, <1>2, <1>3 DEF Apart
<1>5. /\ DOMAIN memory \subseteq DOMAIN copied
      /\ \A j \in 1..n, name \in names :
           /\ Part(structs[j].at, name, 1) \in DOMAIN copied
           /\ copied[Part(structs[j].at, name, 1)] = out[tell + j][2][name]
      /\ \A slot \in DOMAIN copied :
           \/ slot \in DOMAIN memory /\ copied[slot] = memory[slot]
           \/ \E j \in 1..n : \E name \in names : slot = Part(structs[j].at, name, 1)
  BY <1>4, CopiedAre
<1> QED  BY <1>1, <1>5 DEF TakenInARow

(* An array that is copied                                                 *)
LEMMA ArrayIsTaken ==
  ASSUME PlainStructs, OneHistory, ReadingInv, NEW types, TypedBy(writer, graph, types),
         ReadAsTold(types), phase = "read", agenda # <<>>, NEW item, item = Head(agenda),
         item.do = "array", NEW m, m = item.member, NEW n, n = m.n,
         UNCHANGED <<pair, writerVars, dctx, objectsMap, made>>,
         SimplyAssigned(reader.layout[m.type][m.version], dctx),
         NEW structs, structs = [j \in 1..n |-> SubStruct(reader, item, j)], TakeBytes(structs)
  PROVE  ReadAsTold(types)'
<1>1. CASE phase' = "idle"
  BY <1>1, StopTells
<1>2. CASE phase' # "idle"
  <2>1. PICK origin, numbered, opened, letter, c, rest :
          ReaderHas /\ ReaderFinds(types, origin, numbered, opened, letter, c, item, rest)
    BY ReaderFindsIt
  <2>2. PICK T, V, from, items, names, array, size, them :
          /\ T = m.type /\ V = VersionAt(reader, T, c) /\ from = Sent(origin, item.at)
          /\ items = <<>> /\ names = Names(reader, T, V) /\ array = m.name
          /\ size = n /\ them = structs
    OBVIOUS
  <2>3. PICK parts : parts = {Part(item.at, array, j) : j \in 1..size}
    OBVIOUS
  <2>4. PICK there : there = opened \cup parts
    OBVIOUS
  <2>5. item.do \in MemberKinds /\ item.do \in {"member", "array"}
    BY DEF MemberKinds
  <2>6. /\ item.from = item.at /\ item.do = m.kind /\ IsPlace(item.at)
        /\ IsPlace(origin[item.at[1]])
        /\ \A name, j : Sent(origin, Part(item.at, name, j)) = Part(from, name, j)
    <3>1. PICK S : S = TypeOf(types, origin, item.at)
      OBVIOUS
    <3>2. /\ item.from = item.at /\ item.do = m.kind /\ IsPlace(item.at)
          /\ IsPlace(origin[item.at[1]])
          /\ \A name, j : Sent(origin, Part(item.at, name, j)) = Part(Sent(origin, item.at), name, j)
      BY <2>1, <2>5, <3>1, MemberReadsIs
    <3> QED  BY <2>2, <3>2
  <2>7. /\ c = sctx.version /\ Plain(reader, c) /\ letter = Letter(types) /\ IsSequence(rest)
        /\ IsSequence(agenda) /\ ReaderKnows(types, origin, numbered, opened)
        /\ Traces(letter, out, Tracing(Then(ItemPlaces(origin, item), rest), tell, numbered),
                  Tracing(<<>>, Len(out), Seen))
    BY <2>1 DEF ReaderFinds
  <2>8. /\ IsBuild(reader) /\ IsItem(reader, dctx, made, item) /\ tell \in Nat
        /\ dctx \in Contexts /\ dctx.version = c
    BY <2>1, <2>7, TailElements DEF ReaderHas
  <2>9. size \in Nat /\ size >= 1
    <3>1. n \in Nat /\ n >= 1
      BY <2>8, ArrayIs
    <3> QED  BY <2>2, <3>1
  <2>10. \A j \in 1..size :
           /\ Stands(types, origin, Part(item.at, array, j))
           /\ TypeOf(types, origin, Part(item.at, array, j)) = T
           /\ Fits(reader, T, c) /\ m.version \in ToSet(reader.private[T])
           /\ getBestCompatInterfaceVersion(reader, T, m.version, c) = V
           /\ them[j].at = Part(item.at, array, j)
           /\ them[j].type = T /\ them[j].version = m.version
    <3> TAKE j \in 1..size
    <3>1. PICK x : x = SubStruct(reader, item, j)
      OBVIOUS
    <3>2. /\ Stands(types, origin, x.at) /\ Fits(reader, T, c) /\ TypeOf(types, origin, x.at) = T
          /\ x.type = T /\ x.version = m.version /\ x.at = Part(item.at, array, j)
          /\ m.version \in ToSet(reader.private[T])
          /\ getBestCompatInterfaceVersion(reader, T, m.version, c) = V
      <4>1. j \in 1..m.n
        BY <2>2
      <4>2. /\ Stands(types, origin, x.at) /\ Fits(reader, m.type, c)
            /\ TypeOf(types, origin, x.at) = m.type /\ x.type = m.type
            /\ x.version = m.version /\ x.at = Part(item.at, m.name, j)
            /\ m.version \in ToSet(reader.private[m.type])
            /\ getBestCompatInterfaceVersion(reader, m.type, m.version, c)
                 = VersionAt(reader, m.type, c)
        BY <2>1, <2>5, <3>1, <4>1, SubStructReads
      <4> QED  BY ONLY <2>2, <4>2
    <3>3. them[j] = x
      <4>1. them = [i \in 1..size |-> SubStruct(reader, item, i)]
        BY <2>2
      <4> QED  BY ONLY <3>1, <4>1, j \in 1..size
    <3> QED  BY <3>2, <3>3
  <2>11. /\ Fits(reader, T, c) /\ m.version = V /\ them[1].type = T /\ them[1].version = V
    <3>1. 1 \in 1..size
      BY <2>9
    <3>2. /\ Fits(reader, T, c) /\ m.version \in ToSet(reader.private[T])
          /\ getBestCompatInterfaceVersion(reader, T, m.version, c) = V
          /\ them[1].type = T /\ them[1].version = m.version
      BY <2>10, <3>1
    <3>3. SimplyAssigned(reader.layout[T][m.version], dctx) /\ T \in DOMAIN reader.private
      BY <2>2, <3>2 DEF Fits
    <3>4. getBestCompatInterfaceVersion(reader, T, m.version, dctx.version) = m.version
      BY <2>8, <3>2, <3>3, AssignedIsBest
    <3> QED  BY <2>8, <3>2, <3>4
  <2>12. SimplyAssigned(reader.layout[T][V], dctx)
    BY <2>2, <2>11
  <2>13. ItemPlaces(origin, item) = [j \in 1..size |-> StructAt(Part(from, array, j))]
    <3>1. IsBuild(reader) /\ IsItem(reader, dctx, made, item) /\ IsPlace(origin[item.from[1]])
      BY <2>6, <2>8
    <3>2. ItemPlaces(origin, item) =
            [j \in 1..item.member.n |->
               StructAt(Part(Sent(origin, item.from), item.member.name, j))]
      BY <3>1, PlacesOfElements
    <3>3. item.member.n = size /\ Sent(origin, item.from) = from /\ item.member.name = array
      BY <2>2, <2>6
    <3> QED  BY <3>2, <3>3
  <2>14. Then(ItemPlaces(origin, item), rest) = Row(from, array, 0, size, rest)
    <3>1. Row(from, array, 0, size, rest) = [j \in 1..size |-> StructAt(Part(from, array, j))] \o rest
      BY <2>9, RowStarts
    <3> QED  BY <2>13, <3>1 DEF Then
  <2>15. \A j \in 1..size : GoesAsBytes(letter, Part(from, array, j))
    <3> TAKE j \in 1..size
    <3>1. PICK place : place = Part(from, array, j)
      OBVIOUS
    <3>2. place \in DOMAIN types /\ types[place] = T
      <4>1. Sent(origin, Part(item.at, array, j)) = place
        BY <2>6, <3>1
      <4> QED  BY <2>10, <4>1 DEF Stands, TypeOf
    <3>3. T \in DOMAIN writer.private
      BY <3>2 DEF TypedBy
    <3>4. GoesAsBytes(letter, place)
      <4>1. PICK W : W = VersionAt(reader, T, c)
        OBVIOUS
      <4>2. SimplyAssigned(reader.layout[T][W], dctx)
        BY <2>2, <2>12, <4>1
      <4> QED  BY <2>1, <2>11, <3>2, <3>3, <4>1, <4>2, ReaderSays
    <3> QED  BY <3>1, <3>4
  <2>16. /\ \A j \in 1..size : BytesTellOf(letter, out, Part(from, array, j), tell + j)
         /\ Traces(letter, out, Tracing(rest, tell + size, numbered), Tracing(<<>>, Len(out), Seen))
    <3>1. PICK end : end = Tracing(<<>>, Len(out), Seen)
      OBVIOUS
    <3>2. end.todo = <<>>
      BY <3>1 DEF Tracing
    <3>3. Traces(letter, out, Tracing(Row(from, array, 0, size, rest), tell, numbered), end)
      BY <2>7, <2>14, <3>1
    <3>4. /\ \A j \in 1..size : BytesTellOf(letter, out, Part(from, array, j), tell + j)
          /\ Traces(letter, out, Tracing(rest, tell + size, numbered), end)
      BY <2>7, <2>8, <2>9, <2>15, <3>2, <3>3, MustTellArray
    <3> QED  BY <3>1, <3>4
  <2>17. Len(them) = size /\ IsSequence(them)
    <3>1. them = [j \in 1..size |-> SubStruct(reader, item, j)]
      BY <2>2
    <3> QED  BY ONLY <2>9, <3>1 DEF IsSequence
  <2>18. /\ ExpectsBytes(them) /\ memory' = Copied(them) /\ tell' = tell + size
         /\ Continue(<<>>) /\ dead' = dead
    BY <1>2, <2>2, <2>17 DEF TakeBytes, Abandon, Stop, Read
  <2>19. \A j \in 1..size : DOMAIN out[tell + j][2] = names
    BY <2>2, <2>11, <2>17, <2>18 DEF ExpectsBytes
  <2>20. /\ Replaced(items) /\ Elements(items) = {} /\ phase' = phase
         /\ Then(Places(origin, items), rest) = rest
    BY ONLY <2>1, <2>2, <2>18, NothingComes
  <2>21. \A j \in 1..size : them[j].at = Part(item.at, array, j)
    BY <2>10
  <2>22. PICK place, copied : place = item.at /\ copied = Copied(them)
    OBVIOUS
  <2>23. /\ DOMAIN memory \subseteq DOMAIN memory'
         /\ \A j \in 1..size : \A name \in names :
              /\ Part(Part(item.at, array, j), name, 1) \in DOMAIN memory'
              /\ memory'[Part(Part(item.at, array, j), name, 1)] = out[tell + j][2][name]
         /\ \A slot \in DOMAIN memory' :
              \/ slot \in DOMAIN memory /\ memory'[slot] = memory[slot]
              \/ \E j \in 1..size : \E name \in names : slot = Part(Part(item.at, array, j), name, 1)
    <3>1. InARow(place, array, size, them)
      BY <2>6, <2>9, <2>17, <2>21, <2>22 DEF InARow
    <3>2. TakenInARow(place, array, size, names, copied)
      <4>1. names = Names(reader, them[1].type, them[1].version) /\ copied = Copied(them)
        BY <2>2, <2>11, <2>22
      <4> QED  BY <3>1, <4>1, ElementsCopied
    <3>3. memory' = copied /\ place = item.at
      BY <2>18, <2>22
    <3> QED  BY <3>2, <3>3 DEF TakenInARow
  <2>24. Lasting(reader, T, c) = names
    <3>1. HandedOn(reader, T, V, c) = names
      BY ONLY <2>2, <2>7, <2>11, HandedOnAt
    <3>2. HandedOn(reader, T, m.version, c) = Lasting(reader, T, c)
      <4>1. PICK S : S = TypeOf(types, origin, item.at)
        OBVIOUS
      <4>2. m \in ToSet(MessageMembers(reader, S, c)) /\ Fits(reader, S, c)
        BY <2>1, <2>5, <4>1, MemberReadsIs
      <4>3. m.kind \in {"member", "array"}
        BY <2>5, <2>6
      <4> QED  BY ONLY <2>2, <2>7, <4>2, <4>3, PartLasts
    <3> QED  BY <2>11, <3>1, <3>2
  <2>25. \A slot \in DOMAIN memory' :
           \/ slot \in DOMAIN memory /\ memory'[slot] = memory[slot]
           \/ \E q, k : SlotIs(types, origin, slot, q, k, memory'[slot])
    <3> SUFFICES ASSUME NEW j \in 1..size, NEW name \in names,
                        NEW slot, slot = Part(Part(item.at, array, j), name, 1)
                 PROVE  \E q, k : SlotIs(types, origin, slot, q, k, memory'[slot])
      BY <2>23
    <3>1. PICK value, p : value = memory'[slot] /\ p = Part(item.at, array, j)
      OBVIOUS
    <3>2. value = NumberSent(letter, Sent(origin, p), name)
      <4>1. Sent(origin, p) = Part(from, array, j)
        BY <2>6, <3>1
      <4>2. value = out[tell + j][2][name]
        BY <2>23, <3>1
      <4>3. name \in DOMAIN out[tell + j][2]
        BY <2>19
      <4>4. BytesTellOf(letter, out, Part(from, array, j), tell + j)
        BY <2>16
      <4> QED  BY <4>1, <4>2, <4>3, <4>4 DEF BytesTellOf
    <3>3. \E q, k : SlotIs(types, origin, slot, q, k, value)
      <4>1. /\ Stands(types, origin, p) /\ T = TypeOf(types, origin, p)
            /\ Lasting(reader, T, c) = Names(reader, T, V) \/ IsTemporary(p)
            /\ name \in Names(reader, T, V)
        BY <2>2, <2>10, <2>24, <3>1
      <4>2. PICK W, u : W = V /\ u = slot
        OBVIOUS
      <4>3. /\ W = VersionAt(reader, T, c) /\ u = Part(p, name, 1)
            /\ Lasting(reader, T, c) = Names(reader, T, W) \/ IsTemporary(p)
            /\ name \in Names(reader, T, W) /\ SimplyAssigned(reader.layout[T][W], dctx)
        BY <2>2, <2>12, <3>1, <4>1, <4>2
      <4>4. \E q, k : SlotIs(types, origin, u, q, k, value)
        BY <2>7, <2>11, <3>2, <4>1, <4>3, BytesGive
      <4> QED  BY <4>2, <4>4
    <3> QED  BY <3>1, <3>3
  <2>26. \A q \in parts : IsOpened(types, origin, there, q)'
    <3> TAKE q \in parts
    <3>1. PICK j \in 1..size : q = Part(item.at, array, j)
      BY <2>3
    <3>2. Stands(types, origin, q) /\ T = TypeOf(types, origin, q)
      BY <2>10, <3>1
    <3>3. \A name \in Names(reader, T, V) : Part(q, name, 1) \in DOMAIN memory'
      <4>1. names = Names(reader, T, V) /\ q = Part(item.at, array, j)
        BY <2>2, <3>1
      <4>2. \A name \in names : Part(Part(item.at, array, j), name, 1) \in DOMAIN memory'
        BY <2>23
      <4> QED  BY <4>1, <4>2
    <3>4. UNCHANGED <<pair, writerVars, made, dead>>
      BY <2>18
    <3> QED  BY <2>2, <2>7, <2>11, <2>12, <3>2, <3>3, <3>4, BytesOpen
  <2>27. MemberIsThere(there, item.at, m)'
    <3>1. \A j \in 1..size : IsThere(there, Part(item.at, array, j))'
      BY <2>3, <2>4 DEF IsThere
    <3> QED  BY <2>2, <2>6, <3>1 DEF MemberIsThere
  <2>28. \A e \in numbered : e[1] \in DOMAIN objectsMap' /\ objectsMap'[e[1]] = objectsMap[e[1]]
    BY <2>7, NumbersKept DEF ReaderKnows
  <2>29. tell' \in Nat /\ tell <= tell' /\ tell' # tell
    BY <2>8, <2>9, <2>18
  <2>30. UNCHANGED <<pair, writerVars, dctx, made, dead, phase>>
    BY <2>18, <2>20
  <2>31. item.do # "convert" /\ item.do # "struct" /\ opened \subseteq there
    BY <2>4
  <2>32. \A q \in there \ opened : IsOpened(types, origin, there, q)'
    BY <2>26, <2>4
  <2>33. Traces(letter, out, Tracing(Then(Places(origin, items), rest), tell', numbered),
                Tracing(<<>>, Len(out), Seen))
    BY <2>16, <2>18, <2>20
  <2>34. DOMAIN memory \subseteq DOMAIN memory'
    BY <2>23
  <2>35. item.do \in MemberKinds => MemberIsThere(there, item.at, item.member)'
    BY <2>27
  <2>36. Reads(types, origin, numbered, opened, letter, item, rest, items, there)
    BY <2>20, <2>25, <2>28, <2>29, <2>30, <2>31, <2>32, <2>33, <2>34, <2>35 DEF Reads
  <2> QED  BY <2>1, <2>36, ReaderReadsOn
<1> QED  BY <1>1, <1>2

(* deserialize of an array reads its elements, or takes their bytes.       *)
LEMMA DeserializeArrayTells ==
  ASSUME PlainStructs, OneHistory, ReadingInv, NEW types, TypedBy(writer, graph, types),
         ReadAsTold(types), DeserializeArray
  PROVE  ReadAsTold(types)'
<1>1. PICK item, m, n : item = Head(agenda) /\ m = item.member /\ n = m.n
  OBVIOUS
<1>2. PICK structs, items : /\ structs = [j \in 1..n |-> SubStruct(reader, item, j)]
                            /\ items = FlattenSeq(OneByOne(reader, item))
  OBVIOUS
<1>3. OneByOne(reader, item)
        = [j \in 1..n |-> <<[do |-> "element", at |-> structs[j].at], structs[j]>>]
  BY <1>1, <1>2 DEF OneByOne
<1>4. /\ phase = "read" /\ agenda # <<>> /\ item.do = "array"
      /\ UNCHANGED <<pair, writerVars, dctx, objectsMap, made>>
      /\ \/ SimplyAssigned(reader.layout[m.type][m.version], dctx) /\ TakeBytes(structs)
         \/ Continue(items) /\ UNCHANGED <<memory, tell, dead>>
  BY <1>1, <1>2, <1>3 DEF DeserializeArray, Doing
<1>5. CASE SimplyAssigned(reader.layout[m.type][m.version], dctx) /\ TakeBytes(structs)
  BY <1>1, <1>2, <1>4, <1>5, ArrayIsTaken
<1>6. CASE Continue(items) /\ UNCHANGED <<memory, tell, dead>>
  <2>1. UNCHANGED <<pair, writerVars, readerVars>>
    BY <1>4, <1>6 DEF readerVars
  <2> QED  BY <1>1, <1>2, <1>4, <1>6, <2>1, ArrayIsSplit
<1> QED  BY <1>4, <1>5, <1>6
=============================================================================

------------------------- MODULE BodyReadingProofs -------------------------
(***************************************************************************)
(* A message that both sides accepted is read to its end.  The grammar of  *)
(* BodyReading leads from the start of the message over what was written   *)
(* to what is left to write, and from what is left to read to the end.     *)
(***************************************************************************)
EXTENDS BodyReading, BodyProofs

-----------------------------------------------------------------------------
(* Sequences of sequences, and what is gathered of them.                   *)

Sequences(seqs) == IsSequence(seqs) /\ \A i \in 1..Len(seqs) : IsSequence(seqs[i])

Gather(seqs, F) == F[0] = <<>> /\ \A i \in 1..Len(seqs) : F[i] = F[i - 1] \o seqs[i]

(* The empty sequence adds nothing.                                        *)
LEMMA NothingAdded ==
  ASSUME NEW s, IsSequence(s)
  PROVE  <<>> \o s = s /\ s \o <<>> = s /\ IsSequence(<<>>) /\ Len(<<>>) = 0
<1>1. s \in Seq(Elements(s))
  BY SequenceOfElements
<1> QED  BY <1>1 DEF IsSequence

(* Two elements are one after the other.                                   *)
LEMMA TwoElements ==
  ASSUME NEW x, NEW y
  PROVE  <<x, y>> = <<x>> \o <<y>>
<1>1. PICK s, t : s = <<x>> /\ t = <<y>>
  OBVIOUS
<1>2. IsSequence(s) /\ Len(s) = 1 /\ s[1] = x /\ IsSequence(t) /\ Len(t) = 1 /\ t[1] = y
  BY <1>1, AgendaOfOne
<1>3. PICK u : u = s \o t
  OBVIOUS
<1>4. IsSequence(u) /\ Len(u) = 2 /\ u[1] = x /\ u[2] = y
  <2>1. /\ IsSequence(u) /\ Len(u) = Len(s) + Len(t)
        /\ \A i \in 1..Len(u) : u[i] = IF i <= Len(s) THEN s[i] ELSE t[i - Len(s)]
    BY <1>2, <1>3, Concatenated
  <2>2. Len(u) = 2 /\ 1 \in 1..2 /\ 2 \in 1..2
    BY <1>2, <2>1
  <2> QED  BY <1>2, <2>1, <2>2
<1>5. u = [i \in 1..2 |-> u[i]] /\ <<x, y>> = [i \in 1..2 |-> <<x, y>>[i]]
  BY <1>4 DEF IsSequence
<1>6. \A i \in 1..2 : u[i] = <<x, y>>[i]
  BY <1>4
<1> QED  BY <1>1, <1>3, <1>5, <1>6

(* Concatenation is associative.                                           *)
LEMMA Associates ==
  ASSUME NEW s, NEW t, NEW u, IsSequence(s), IsSequence(t), IsSequence(u)
  PROVE  (s \o t) \o u = s \o (t \o u)
<1> DEFINE S == Elements(s) \cup Elements(t) \cup Elements(u)
<1>1. s \in Seq(S) /\ t \in Seq(S) /\ u \in Seq(S)
  <2>1. s \in Seq(Elements(s)) /\ t \in Seq(Elements(t)) /\ u \in Seq(Elements(u))
    BY SequenceOfElements
  <2> QED  BY <2>1
<1> HIDE DEF S
<1> QED  BY <1>1, ConcatAssociative

(* Every sequence of sequences can be gathered.                            *)
LEMMA GatheringExists ==
  ASSUME NEW seqs, Sequences(seqs)
  PROVE  \E F : Gather(seqs, F)
<1>1. Len(seqs) \in Nat /\ IsSequence(seqs)
  BY DEF Sequences, IsSequence
<1>2. CASE seqs = <<>>
  <2>1. Gather(seqs, [i \in {0} |-> <<>>])
    BY <1>2 DEF Gather
  <2> QED  BY <2>1
<1>3. CASE seqs # <<>>
  <2>1. PICK F : \A i \in 1..Len(seqs) : F[i] = IF i = 1 THEN seqs[i] ELSE F[i - 1] \o seqs[i]
    BY <1>1, <1>3, FlattenedBy
  <2> DEFINE G == [i \in 0..Len(seqs) |-> IF i = 0 THEN <<>> ELSE F[i]]
  <2>2. ASSUME NEW i \in 1..Len(seqs)
        PROVE  G[i] = G[i - 1] \o seqs[i]
    <3>1. IsSequence(seqs[i]) /\ i \in 0..Len(seqs) /\ i - 1 \in 0..Len(seqs) /\ i # 0
      BY <1>1 DEF Sequences
    <3>2. G[i] = F[i]
      BY <3>1
    <3>3. CASE i = 1
      <4>1. G[i - 1] = <<>> /\ F[i] = seqs[i]
        BY <2>1, <3>1, <3>3
      <4> QED  BY <3>1, <3>2, <4>1, NothingAdded
    <3>4. CASE i # 1
      <4>1. G[i - 1] = F[i - 1]
        BY <3>1, <3>4
      <4> QED  BY <2>1, <3>2, <3>4, <4>1
    <3> QED  BY <3>3, <3>4
  <2>3. G[0] = <<>>
    BY <1>1
  <2> HIDE DEF G
  <2>4. Gather(seqs, G)
    BY <2>2, <2>3 DEF Gather
  <2> QED  BY <2>4
<1> QED  BY <1>2, <1>3

(* What is gathered is what flatten gives, and a sequence all along.       *)
LEMMA Gathered ==
  ASSUME NEW seqs, Sequences(seqs), NEW F, Gather(seqs, F)
  PROVE  /\ FlattenSeq(seqs) = F[Len(seqs)]
         /\ \A i \in 0..Len(seqs) : IsSequence(F[i])
<1>1. Len(seqs) \in Nat /\ IsSequence(seqs) /\ \A i \in 1..Len(seqs) : IsSequence(seqs[i])
  BY DEF Sequences, IsSequence
<1>2. F[0] = <<>> /\ \A i \in 1..Len(seqs) : F[i] = F[i - 1] \o seqs[i]
  BY DEF Gather
<1>3. \A i \in 0..Len(seqs) : IsSequence(F[i])
  <2> DEFINE M == {m \in Nat : m <= Len(seqs) => IsSequence(F[m])}
  <2>1. 0 \in M
    BY <1>2, AgendaOfOne
  <2>2. ASSUME NEW m \in Nat, m \in M
        PROVE  m + 1 \in M
    <3> SUFFICES ASSUME m + 1 <= Len(seqs)
                 PROVE  IsSequence(F[m + 1])
      OBVIOUS
    <3>1. m + 1 \in 1..Len(seqs) /\ (m + 1) - 1 = m /\ m <= Len(seqs)
      BY <1>1
    <3>2. F[m + 1] = F[m] \o seqs[m + 1]
      BY <1>2, <3>1
    <3> QED  BY <1>1, <2>2, <3>1, <3>2, Concatenated
  <2> HIDE DEF M
  <2>3. \A m \in Nat : m \in M
    BY <2>1, <2>2, NumbersByInduction
  <2> QED  BY <1>1, <2>3 DEF M
<1>4. CASE seqs = <<>>
  <2>1. Len(seqs) = 0 /\ FlattenSeq(seqs) = seqs
    BY <1>4 DEF FlattenSeq
  <2> QED  BY <1>2, <1>3, <1>4, <2>1
<1>5. CASE seqs # <<>>
  <2>1. PICK G : /\ FlattenSeq(seqs) = G[Len(seqs)]
                 /\ \A i \in 1..Len(seqs) :
                      G[i] = IF i = 1 THEN seqs[i] ELSE G[i - 1] \o seqs[i]
    BY <1>1, <1>5, FlattenedBy
  <2> DEFINE M == {m \in Nat : m \in 1..Len(seqs) => G[m] = F[m]}
  <2>2. 0 \in M
    OBVIOUS
  <2>3. ASSUME NEW m \in Nat, m \in M
        PROVE  m + 1 \in M
    <3> SUFFICES ASSUME m + 1 \in 1..Len(seqs)
                 PROVE  G[m + 1] = F[m + 1]
      OBVIOUS
    <3>1. F[m + 1] = F[m] \o seqs[m + 1]
      BY <1>2, (m + 1) - 1 = m
    <3>2. CASE m = 0
      <4>1. F[m + 1] = seqs[m + 1]
        BY <1>1, <1>2, <3>1, <3>2, NothingAdded
      <4> QED  BY <2>1, <3>2, <4>1
    <3>3. CASE m # 0
      <4>1. m \in 1..Len(seqs) /\ m + 1 # 1 /\ (m + 1) - 1 = m
        BY <1>1, <3>3
      <4> QED  BY <2>1, <2>3, <3>1, <4>1
    <3> QED  BY <3>2, <3>3
  <2> HIDE DEF M
  <2>4. Len(seqs) \in M
    BY <1>1, <2>2, <2>3, NumbersByInduction
  <2>5. Len(seqs) \in 1..Len(seqs)
    BY <1>1, <1>5, SequenceOfElements
  <2> QED  BY <1>3, <2>1, <2>4, <2>5 DEF M
<1> QED  BY <1>3, <1>4, <1>5

(* What two sequences of sequences give is what each gives, in this order. *)
LEMMA FlattenedConcat ==
  ASSUME NEW s, NEW t, Sequences(s), Sequences(t)
  PROVE  FlattenSeq(s \o t) = FlattenSeq(s) \o FlattenSeq(t)
<1>1. PICK F : Gather(s, F)
  BY GatheringExists
<1>2. PICK G : Gather(t, G)
  BY GatheringExists
<1> DEFINE u == s \o t
           n == Len(s)
           K == [i \in 0..Len(u) |-> IF i <= n THEN F[i] ELSE F[n] \o G[i - n]]
<1>3. /\ IsSequence(u) /\ Len(u) = n + Len(t) /\ n \in Nat /\ Len(t) \in Nat
      /\ \A i \in 1..Len(u) : u[i] = IF i <= n THEN s[i] ELSE t[i - n]
  BY Concatenated DEF Sequences, IsSequence
<1> HIDE DEF u
<1>4. /\ FlattenSeq(s) = F[n] /\ \A i \in 0..n : IsSequence(F[i])
      /\ FlattenSeq(t) = G[Len(t)] /\ \A i \in 0..Len(t) : IsSequence(G[i])
  BY <1>1, <1>2, Gathered
<1>5. /\ F[0] = <<>> /\ \A i \in 1..n : F[i] = F[i - 1] \o s[i]
      /\ G[0] = <<>> /\ \A i \in 1..Len(t) : G[i] = G[i - 1] \o t[i]
      /\ \A i \in 1..n : IsSequence(s[i])
      /\ \A i \in 1..Len(t) : IsSequence(t[i])
  BY <1>1, <1>2 DEF Gather, Sequences
<1>6. Sequences(u)
  <2>1. ASSUME NEW i \in 1..Len(u)
        PROVE  IsSequence(u[i])
    <3>1. CASE i <= n
      BY <1>3, <1>5, <3>1
    <3>2. CASE ~(i <= n)
      <4>1. i - n \in 1..Len(t)
        BY <1>3, <3>2
      <4> QED  BY <1>3, <1>5, <3>2, <4>1
    <3> QED  BY <3>1, <3>2
  <2> QED  BY <1>3, <2>1 DEF Sequences
<1>7. ASSUME NEW i \in 1..Len(u)
      PROVE  K[i] = K[i - 1] \o u[i]
  <2>1. i \in 0..Len(u) /\ i - 1 \in 0..Len(u)
    BY <1>3
  <2>2. CASE i <= n
    <3>1. i \in 1..n /\ i - 1 <= n
      BY <1>3, <2>2
    <3> QED  BY <1>3, <1>5, <2>1, <2>2, <3>1
  <2>3. CASE ~(i <= n)
    <3>1. PICK k \in 1..Len(t) : i = n + k
      <4>1. i - n \in 1..Len(t) /\ i = n + (i - n)
        BY <1>3, <2>3
      <4> QED  BY <4>1
    <3>2. i - n = k /\ (i - 1) - n = k - 1 /\ k - 1 \in 0..Len(t) /\ n \in 0..n
      BY <1>3, <3>1
    <3>3. u[i] = t[k] /\ K[i] = F[n] \o G[k] /\ G[k] = G[k - 1] \o t[k]
      BY <1>3, <1>5, <2>1, <2>3, <3>2
    <3>4. K[i - 1] = F[n] \o G[k - 1]
      <4>1. CASE k = 1
        <5>1. i - 1 = n
          BY <1>3, <3>1, <4>1
        <5>2. K[i - 1] = F[n]
          BY <1>3, <2>1, <3>2, <5>1
        <5>3. F[n] \o <<>> = F[n]
          BY <1>4, <3>2, NothingAdded
        <5>4. k - 1 = 0 /\ G[0] = <<>>
          BY <1>5, <4>1
        <5> HIDE DEF K
        <5> QED  BY <5>2, <5>3, <5>4
      <4>2. CASE k # 1
        <5>1. ~(i - 1 <= n)
          BY <1>3, <3>1, <4>2
        <5> HIDE DEF n
        <5> QED  BY <2>1, <3>2, <5>1
      <4> QED  BY <4>1, <4>2
    <3>5. (F[n] \o G[k - 1]) \o t[k] = F[n] \o (G[k - 1] \o t[k])
      <4>1. PICK f, g, h : f = F[n] /\ g = G[k - 1] /\ h = t[k]
        OBVIOUS
      <4>2. IsSequence(f) /\ IsSequence(g) /\ IsSequence(h)
        BY <1>4, <1>5, <3>2, <4>1
      <4>3. (f \o g) \o h = f \o (g \o h)
        BY <4>2, Associates
      <4> QED  BY <4>1, <4>3
    <3> QED  BY <3>3, <3>4, <3>5
  <2> QED  BY <2>2, <2>3
<1>8. K[0] = <<>>
  BY <1>3, <1>5
<1> HIDE DEF K
<1>9. FlattenSeq(u) = K[Len(u)]
  BY <1>6, <1>7, <1>8, Gathered DEF Gather
<1>10. K[Len(u)] = F[n] \o G[Len(t)]
  <2>1. Len(u) \in 0..Len(u) /\ Len(u) - n = Len(t) /\ n \in 0..n
    BY <1>3
  <2>2. CASE Len(t) = 0
    <3>1. F[n] \o <<>> = F[n]
      BY <1>4, <2>1, NothingAdded
    <3>2. K[Len(u)] = F[n]
      BY <1>3, <2>1, <2>2 DEF K
    <3> QED  BY <1>5, <2>2, <3>1, <3>2
  <2>3. CASE Len(t) # 0
    <3>1. ~(Len(u) <= n)
      BY <1>3, <2>3
    <3> QED  BY <2>1, <3>1 DEF K
  <2> QED  BY <2>2, <2>3
<1> QED  BY <1>4, <1>9, <1>10 DEF u

(* One sequence gives itself.                                              *)
LEMMA FlattenedOne ==
  ASSUME NEW x, IsSequence(x)
  PROVE  FlattenSeq(<<x>>) = x /\ FlattenSeq(<<>>) = <<>> /\ Sequences(<<x>>)
<1> DEFINE F == [i \in 0..1 |-> IF i = 0 THEN <<>> ELSE x]
<1>1. Len(<<x>>) = 1 /\ <<x>>[1] = x
  OBVIOUS
<1>2. Sequences(<<x>>)
  BY <1>1, AgendaOfOne DEF Sequences
<1>3. F[0] = <<>> /\ F[1] = x
  OBVIOUS
<1> HIDE DEF F
<1>4. Gather(<<x>>, F)
  <2>1. \A i \in 1..Len(<<x>>) : i = 1 /\ i - 1 = 0
    BY <1>1
  <2>2. <<>> \o x = x
    BY NothingAdded
  <2> QED  BY <1>1, <1>3, <2>1, <2>2 DEF Gather
<1>5. FlattenSeq(<<x>>) = F[1]
  BY <1>1, <1>2, <1>4, Gathered
<1> QED  BY <1>2, <1>3, <1>5 DEF FlattenSeq

(* Single elements give the sequence of these.                             *)
LEMMA FlattenedSingles ==
  ASSUME NEW s, IsSequence(s)
  PROVE  /\ FlattenSeq([i \in 1..Len(s) |-> <<s[i]>>]) = s
         /\ Sequences([i \in 1..Len(s) |-> <<s[i]>>])
<1> DEFINE n == Len(s)
           seqs == [i \in 1..n |-> <<s[i]>>]
           F == [i \in 0..n |-> [j \in 1..i |-> s[j]]]
<1>1. n \in Nat /\ s = [i \in 1..n |-> s[i]]
  BY DEF IsSequence
<1>2. Len(seqs) = n /\ Sequences(seqs)
  BY <1>1, AgendaOfOne DEF Sequences, IsSequence
<1>3. ASSUME NEW i \in 1..n
      PROVE  F[i] = F[i - 1] \o seqs[i]
  <2>1. PICK k \in Nat : i = k + 1 /\ i - 1 = k /\ k \in 0..n
    <3>1. i - 1 \in Nat /\ i - 1 \in 0..n /\ i = (i - 1) + 1
      BY <1>1
    <3> QED  BY <3>1
  <2> DEFINE u == [j \in 1..k |-> s[j]]
             v == <<s[i]>>
  <2>2. IsSequence(u) /\ Len(u) = k /\ IsSequence(v) /\ Len(v) = 1 /\ v[1] = s[i]
    BY <2>1 DEF IsSequence
  <2>3. F[i - 1] = u /\ seqs[i] = v /\ F[i] = [j \in 1..(k + 1) |-> s[j]]
    <3>1. i \in 0..n /\ i - 1 \in 0..n /\ i - 1 = k /\ i = k + 1
      BY <1>1, <2>1
    <3>2. F[i - 1] = [j \in 1..(i - 1) |-> s[j]] /\ F[i] = [j \in 1..i |-> s[j]]
      BY <3>1
    <3> QED  BY <3>1, <3>2
  <2>4. /\ IsSequence(u \o v) /\ Len(u \o v) = k + 1
        /\ \A j \in 1..(k + 1) : (u \o v)[j] = IF j <= k THEN u[j] ELSE v[j - k]
    <3> HIDE DEF u, v
    <3>1. /\ IsSequence(u \o v) /\ Len(u \o v) = Len(u) + Len(v)
          /\ \A j \in 1..Len(u \o v) : (u \o v)[j] = IF j <= Len(u) THEN u[j] ELSE v[j - Len(u)]
      BY <2>2, Concatenated
    <3> QED  BY <2>1, <2>2, <3>1
  <2>5. \A j \in 1..(k + 1) : (u \o v)[j] = s[j]
    BY <2>1, <2>2, <2>4
  <2>6. u \o v = [j \in 1..(k + 1) |-> s[j]]
    <3> HIDE DEF u, v
    <3>1. u \o v = [j \in 1..(k + 1) |-> (u \o v)[j]]
      BY <2>4 DEF IsSequence
    <3> QED  BY <2>5, <3>1
  <2> QED  BY <2>3, <2>6
<1>4. F[0] = <<>> /\ F[n] = s
  BY <1>1
<1> HIDE DEF F, seqs
<1>5. Gather(seqs, F)
  BY <1>2, <1>3, <1>4 DEF Gather
<1>6. FlattenSeq(seqs) = F[n]
  BY <1>2, <1>5, Gathered
<1> QED  BY <1>2, <1>4, <1>6 DEF seqs

-----------------------------------------------------------------------------
(* What items come to in the message.                                      *)

Symbolic(b, c, items) ==
  IsSequence(items) /\ \A x \in Elements(items) : IsSequence(ItemSymbols(b, c, x))

(* The symbols of every item                                               *)
Symbols(b, c, items) == [i \in 1..Len(items) |-> ItemSymbols(b, c, items[i])]

(* The symbols of items are sequences, and so is what they give.           *)
LEMMA SymbolsAre ==
  ASSUME NEW b, NEW c, NEW items, Symbolic(b, c, items)
  PROVE  /\ Shape(b, c, items) = FlattenSeq(Symbols(b, c, items))
         /\ Sequences(Symbols(b, c, items)) /\ Len(Symbols(b, c, items)) = Len(items)
         /\ IsSequence(Shape(b, c, items)) /\ Len(items) \in Nat
<1>1. Len(items) \in Nat /\ \A i \in 1..Len(items) : IsSequence(ItemSymbols(b, c, items[i]))
  BY DEF Symbolic, IsSequence, Elements
<1>2. Len(Symbols(b, c, items)) = Len(items)
      /\ \A i \in 1..Len(items) : Symbols(b, c, items)[i] = ItemSymbols(b, c, items[i])
  BY <1>1 DEF Symbols
<1>3. IsSequence(Symbols(b, c, items))
  BY <1>1, <1>2 DEF IsSequence, Symbols
<1>4. Sequences(Symbols(b, c, items))
  BY <1>1, <1>2, <1>3 DEF Sequences
<1>5. PICK F : Gather(Symbols(b, c, items), F)
  BY <1>4, GatheringExists
<1>6. IsSequence(FlattenSeq(Symbols(b, c, items)))
  <2>1. Len(items) \in 0..Len(items)
    BY <1>1
  <2> QED  BY <1>2, <1>4, <1>5, <2>1, Gathered
<1>7. Shape(b, c, items) = FlattenSeq(Symbols(b, c, items))
  BY DEF Shape, Symbols
<1> QED  BY <1>1, <1>2, <1>4, <1>6, <1>7

(* Items that come after others add their symbols.                         *)
LEMMA ShapeConcat ==
  ASSUME NEW b, NEW c, NEW s, NEW t, Symbolic(b, c, s), Symbolic(b, c, t)
  PROVE  /\ Symbolic(b, c, s \o t)
         /\ Shape(b, c, s \o t) = Shape(b, c, s) \o Shape(b, c, t)
<1> DEFINE u == s \o t
           n == Len(s)
           x == Symbols(b, c, s)
           y == Symbols(b, c, t)
           z == Symbols(b, c, u)
<1>1. /\ IsSequence(u) /\ Len(u) = n + Len(t) /\ n \in Nat /\ Len(t) \in Nat
      /\ \A i \in 1..Len(u) : u[i] = IF i <= n THEN s[i] ELSE t[i - n]
      /\ Elements(u) = Elements(s) \cup Elements(t)
  BY Concatenated DEF Symbolic, IsSequence
<1>2. Symbolic(b, c, u)
  BY <1>1 DEF Symbolic
<1> HIDE DEF u
<1>3. /\ Sequences(x) /\ Len(x) = n /\ Sequences(y) /\ Len(y) = Len(t)
      /\ Sequences(z) /\ Len(z) = Len(u)
  BY <1>2, SymbolsAre
<1>4. /\ \A i \in 1..n : x[i] = ItemSymbols(b, c, s[i])
      /\ \A i \in 1..Len(t) : y[i] = ItemSymbols(b, c, t[i])
      /\ \A i \in 1..Len(u) : z[i] = ItemSymbols(b, c, u[i])
  BY DEF Symbols
<1> HIDE DEF x, y, z
<1>5. /\ IsSequence(x \o y) /\ Len(x \o y) = n + Len(t)
      /\ \A i \in 1..Len(x \o y) : (x \o y)[i] = IF i <= n THEN x[i] ELSE y[i - n]
  BY ONLY <1>3, Concatenated DEF Sequences
<1>6. ASSUME NEW i \in 1..Len(u)
      PROVE  z[i] = (x \o y)[i]
  <2>1. i \in 1..Len(x \o y)
    BY <1>1, <1>5
  <2>2. CASE i <= n
    <3>1. i \in 1..n
      BY <1>1, <2>2
    <3> QED  BY <1>1, <1>4, <1>5, <2>1, <2>2, <3>1
  <2>3. CASE ~(i <= n)
    <3>1. i - n \in 1..Len(t)
      BY <1>1, <2>3
    <3> QED  BY <1>1, <1>4, <1>5, <2>1, <2>3, <3>1
  <2> QED  BY <2>2, <2>3
<1>7. z = x \o y
  <2>1. z = [i \in 1..Len(u) |-> z[i]] /\ x \o y = [i \in 1..Len(u) |-> (x \o y)[i]]
    BY <1>1, <1>3, <1>5 DEF IsSequence, Sequences
  <2> QED  BY <1>6, <2>1
<1>8. FlattenSeq(z) = FlattenSeq(x) \o FlattenSeq(y)
  BY <1>3, <1>7, FlattenedConcat
<1>9. Shape(b, c, u) = FlattenSeq(z) /\ Shape(b, c, s) = FlattenSeq(x)
      /\ Shape(b, c, t) = FlattenSeq(y)
  BY <1>2, SymbolsAre DEF x, y, z
<1> QED  BY <1>2, <1>8, <1>9 DEF u

(* The symbols of one item, and of none                                    *)
LEMMA ShapeOfOne ==
  ASSUME NEW b, NEW c, NEW x, IsSequence(ItemSymbols(b, c, x))
  PROVE  /\ Symbolic(b, c, <<x>>) /\ Shape(b, c, <<x>>) = ItemSymbols(b, c, x)
         /\ Symbolic(b, c, <<>>) /\ Shape(b, c, <<>>) = <<>>
<1>1. Symbolic(b, c, <<x>>) /\ Symbolic(b, c, <<>>)
  BY AgendaOfOne DEF Symbolic
<1>2. Symbols(b, c, <<x>>) = <<ItemSymbols(b, c, x)>> /\ Symbols(b, c, <<>>) = <<>>
  BY DEF Symbols
<1>3. /\ Shape(b, c, <<x>>) = FlattenSeq(<<ItemSymbols(b, c, x)>>)
      /\ Shape(b, c, <<>>) = FlattenSeq(<<>>)
  BY <1>1, <1>2, SymbolsAre
<1> QED  BY <1>1, <1>3, FlattenedOne

(* The symbols of what comes first, and of the rest                        *)
LEMMA ShapeHead ==
  ASSUME NEW b, NEW c, NEW items, Symbolic(b, c, items), items # <<>>
  PROVE  /\ Shape(b, c, items) = ItemSymbols(b, c, Head(items)) \o Shape(b, c, Tail(items))
         /\ Symbolic(b, c, Tail(items)) /\ IsSequence(ItemSymbols(b, c, Head(items)))
<1>1. /\ IsSequence(Tail(items)) /\ Elements(Tail(items)) \subseteq Elements(items)
      /\ Head(items) \in Elements(items) /\ items = <<Head(items)>> \o Tail(items)
  BY TailElements DEF Symbolic
<1>2. Symbolic(b, c, Tail(items)) /\ IsSequence(ItemSymbols(b, c, Head(items)))
  BY <1>1 DEF Symbolic
<1>3. Symbolic(b, c, <<Head(items)>>)
      /\ Shape(b, c, <<Head(items)>>) = ItemSymbols(b, c, Head(items))
  BY <1>2, ShapeOfOne
<1>4. Shape(b, c, <<Head(items)>> \o Tail(items))
        = Shape(b, c, <<Head(items)>>) \o Shape(b, c, Tail(items))
  BY <1>2, <1>3, ShapeConcat
<1> QED  BY <1>1, <1>2, <1>3, <1>4

(* The symbols of sequences of items, one after another                    *)
LEMMA ShapeFlattened ==
  ASSUME NEW b, NEW c, NEW seqs, IsSequence(seqs),
         \A i \in 1..Len(seqs) : Symbolic(b, c, seqs[i])
  PROVE  /\ Symbolic(b, c, FlattenSeq(seqs))
         /\ Shape(b, c, FlattenSeq(seqs))
              = FlattenSeq([i \in 1..Len(seqs) |-> Shape(b, c, seqs[i])])
<1> DEFINE n == Len(seqs)
           shapes == [i \in 1..n |-> Shape(b, c, seqs[i])]
<1>1. n \in Nat /\ Sequences(seqs)
  BY DEF Sequences, Symbolic, IsSequence
<1>2. PICK F : Gather(seqs, F)
  BY <1>1, GatheringExists
<1>3. F[0] = <<>> /\ \A i \in 1..n : F[i] = F[i - 1] \o seqs[i]
  BY <1>2 DEF Gather
<1>4. \A i \in 0..n : Symbolic(b, c, F[i])
  <2> DEFINE M == {m \in Nat : m <= n => Symbolic(b, c, F[m])}
  <2>1. 0 \in M
    BY <1>3, AgendaOfOne DEF Symbolic
  <2>2. ASSUME NEW m \in Nat, m \in M
        PROVE  m + 1 \in M
    <3> SUFFICES ASSUME m + 1 <= n
                 PROVE  Symbolic(b, c, F[m + 1])
      OBVIOUS
    <3>1. m + 1 \in 1..n /\ (m + 1) - 1 = m /\ m <= n
      BY <1>1
    <3>2. F[m + 1] = F[m] \o seqs[m + 1]
      BY <1>3, <3>1
    <3>3. Symbolic(b, c, F[m]) /\ Symbolic(b, c, seqs[m + 1])
      BY <2>2, <3>1
    <3> QED  BY <3>2, <3>3, ShapeConcat
  <2> HIDE DEF M
  <2>3. \A m \in Nat : m \in M
    BY <2>1, <2>2, NumbersByInduction
  <2> QED  BY <1>1, <2>3 DEF M
<1>5. Len(shapes) = n /\ IsSequence(shapes) /\ Sequences(shapes)
  <2>1. Len(shapes) = n /\ IsSequence(shapes)
    BY <1>1 DEF IsSequence
  <2>2. \A i \in 1..n : IsSequence(shapes[i])
    BY SymbolsAre
  <2> HIDE DEF shapes
  <2> QED  BY <2>1, <2>2 DEF Sequences
<1> DEFINE K == [i \in 0..n |-> Shape(b, c, F[i])]
<1>6. K[0] = <<>> /\ K[n] = Shape(b, c, F[n])
  <2>1. Shape(b, c, <<>>) = <<>>
    <3>1. Shape(b, c, <<>>) = FlattenSeq(Symbols(b, c, <<>>)) /\ Symbols(b, c, <<>>) = <<>>
      BY DEF Shape, Symbols
    <3> QED  BY <3>1 DEF FlattenSeq
  <2> QED  BY <1>1, <1>3, <2>1
<1>7. ASSUME NEW i \in 1..n
      PROVE  K[i] = K[i - 1] \o shapes[i]
  <2>1. i \in 0..n /\ i - 1 \in 0..n
    BY <1>1
  <2>2. Symbolic(b, c, F[i - 1]) /\ Symbolic(b, c, seqs[i])
    BY <1>4, <2>1
  <2>3. Shape(b, c, F[i - 1] \o seqs[i]) = Shape(b, c, F[i - 1]) \o Shape(b, c, seqs[i])
    BY <2>2, ShapeConcat
  <2> QED  BY <1>3, <2>1, <2>3
<1> HIDE DEF K, shapes
<1>8. FlattenSeq(shapes) = K[n]
  <2>1. Gather(shapes, K)
    BY <1>5, <1>6, <1>7 DEF Gather
  <2> QED  BY <1>5, <2>1, Gathered
<1>9. FlattenSeq(seqs) = F[n] /\ n \in 0..n
  BY <1>1, <1>2, Gathered
<1>10. shapes = [i \in 1..Len(seqs) |-> Shape(b, c, seqs[i])]
  BY DEF shapes
<1> QED  BY <1>4, <1>6, <1>8, <1>9, <1>10

(* The symbols of a member are a sequence.                                 *)
LEMMA MemberSymbolsAre ==
  ASSUME NEW b, NEW c, NEW m, m.kind \in MemberKinds, m.n \in Nat
  PROVE  IsSequence(MemberSymbols(b, c, m))
<1>1. CASE m.kind = "number"
  BY <1>1, AgendaOfOne DEF MemberSymbols
<1>2. CASE m.kind = "pointer"
  BY <1>2, AgendaOfOne DEF MemberSymbols
<1>3. CASE m.kind = "member"
  BY <1>3, AgendaOfOne DEF MemberSymbols
<1>4. CASE m.kind = "array"
  <2>1. PICK x : x = StructSymbol(b, c, m.type, m.version)
    OBVIOUS
  <2>2. MemberSymbols(b, c, m) = [j \in 1..m.n |-> x]
    BY <1>4, <2>1 DEF MemberSymbols
  <2> QED  BY <2>2 DEF IsSequence
<1> QED  BY <1>1, <1>2, <1>3, <1>4 DEF MemberKinds

(* A member of a build is one of Members.                                  *)
LEMMA MembersInAre ==
  ASSUME NEW b, IsBuild(b), NEW m \in MembersIn(b)
  PROVE  m \in Members
<1>1. PICK T \in DOMAIN b.private :
          \E v \in ToSet(b.private[T]) : m \in ToSet(b.layout[T][v].members)
  BY DEF MembersIn
<1>2. PICK v \in ToSet(b.private[T]) : m \in ToSet(b.layout[T][v].members)
  BY <1>1
<1>3. b.layout[T][v].members \in Seq(Members)
  BY LayoutIs
<1> QED  BY <1>2, <1>3 DEF ToSet

(* The symbols of an item are a sequence.                                  *)
LEMMA ItemIsSymbolic ==
  ASSUME NEW b, IsBuild(b), NEW ctx, NEW n, NEW item, IsItem(b, ctx, n, item), NEW c
  PROVE  IsSequence(ItemSymbols(b, c, item))
<1>1. CASE item.do = "struct"
  BY <1>1, AgendaOfOne DEF ItemSymbols, MemberKinds
<1>2. CASE item.do \in MemberKinds
  <2>1. item.do = item.member.kind /\ item.member \in MembersIn(b)
    BY <1>2, ItemIsMember DEF MemberInMessage
  <2>2. item.member.kind \in MemberKinds /\ item.member.n \in Nat
    BY <1>2, <2>1, MembersInAre DEF Members
  <2>3. ItemSymbols(b, c, item) = MemberSymbols(b, c, item.member)
    BY <1>2 DEF ItemSymbols, MemberKinds
  <2> QED  BY <2>2, <2>3, MemberSymbolsAre
<1>3. CASE item.do # "struct" /\ item.do \notin MemberKinds
  <2>1. ItemSymbols(b, c, item) = <<>>
    BY <1>3 DEF ItemSymbols
  <2> QED  BY <2>1, AgendaOfOne
<1> QED  BY <1>1, <1>2, <1>3

(* Items of an agenda have symbols.                                        *)
LEMMA ItemsAreSymbolic ==
  ASSUME NEW b, IsBuild(b), NEW ctx, NEW n, NEW items, IsSequence(items),
         \A x \in Elements(items) : IsItem(b, ctx, n, x), NEW c
  PROVE  Symbolic(b, c, items)
BY ItemIsSymbolic DEF Symbolic

(* The members of a struct come to what the struct holds.                  *)
LEMMA ShapeOfMembers ==
  ASSUME NEW b, IsBuild(b), NEW c, NEW item,
         item.type \in DOMAIN b.private, item.version \in ToSet(b.private[item.type])
  PROVE  Shape(b, c, MembersOf(b, item)) = StructSymbols(b, c, item.type, item.version)
<1> DEFINE members == b.layout[item.type][item.version].members
           items == MembersOf(b, item)
<1>1. members \in Seq(Members)
  BY LayoutIs
<1>2. DOMAIN members = 1..Len(members) /\ Len(members) \in Nat
      /\ \A i \in 1..Len(members) : members[i] \in Members
  <2> HIDE DEF members
  <2> QED  BY <1>1
<1>3. items = [i \in 1..Len(members) |->
                 [do |-> members[i].kind, member |-> members[i],
                  at |-> item.at, from |-> item.from, kept |-> item.kept]]
  BY <1>2 DEF MembersOf, Layout
<1> HIDE DEF members, items
<1>4. Len(items) = Len(members) /\ \A i \in 1..Len(members) :
        items[i].do = members[i].kind /\ items[i].member = members[i]
  BY <1>2, <1>3
<1>5. ASSUME NEW i \in 1..Len(members)
      PROVE  ItemSymbols(b, c, items[i]) = MemberSymbols(b, c, members[i])
  <2>1. items[i].do \in MemberKinds /\ items[i].do # "struct"
    BY <1>2, <1>4 DEF Members, MemberKinds
  <2> QED  BY <1>4, <2>1 DEF ItemSymbols
<1>6. [i \in 1..Len(items) |-> ItemSymbols(b, c, items[i])]
        = [i \in 1..Len(members) |-> MemberSymbols(b, c, members[i])]
  BY <1>4, <1>5
<1> QED  BY <1>6 DEF Shape, StructSymbols, members, items

(* The elements of an array come to what the array does.                   *)
LEMMA ShapeOfElements ==
  ASSUME NEW b, IsBuild(b), NEW c, NEW ctx, NEW n, NEW item, IsItem(b, ctx, n, item),
         item.do = "array"
  PROVE  /\ Shape(b, c, FlattenSeq(OneByOne(b, item))) = ItemSymbols(b, c, item)
         /\ ItemSymbols(b, c, item)
              = [j \in 1..item.member.n |->
                   StructSymbol(b, c, item.member.type, item.member.version)]
<1>1. PICK N, x : N = item.member.n /\ x = StructSymbol(b, c, item.member.type, item.member.version)
  OBVIOUS
<1>2. N \in Nat /\ item.member.kind = "array"
  BY <1>1, ArrayIs
<1> DEFINE s == [j \in 1..N |-> x]
           seqs == OneByOne(b, item)
<1>3. ItemSymbols(b, c, item) = s
  <2>1. ItemSymbols(b, c, item) = MemberSymbols(b, c, item.member)
    BY DEF ItemSymbols, MemberKinds
  <2> QED  BY <1>1, <1>2, <2>1 DEF MemberSymbols
<1>4. IsSequence(s) /\ Len(s) = N
  BY <1>2 DEF IsSequence
<1>5. IsSequence(seqs) /\ Len(seqs) = N
  BY <1>1, <1>2 DEF OneByOne, IsSequence
<1>6. ASSUME NEW j \in 1..N
      PROVE  Symbolic(b, c, seqs[j]) /\ Shape(b, c, seqs[j]) = <<x>>
  <2>1. PICK e, sub : e = [do |-> "element", at |-> SubStruct(b, item, j).at]
                      /\ sub = SubStruct(b, item, j)
    OBVIOUS
  <2>2. seqs[j] = <<e, sub>>
    BY <1>1, <2>1 DEF OneByOne
  <2>3. ItemSymbols(b, c, e) = <<>>
    BY <2>1 DEF ItemSymbols, MemberKinds
  <2>4. ItemSymbols(b, c, sub) = <<x>>
    <3>1. sub.do = "struct" /\ sub.type = item.member.type /\ sub.version = item.member.version
      BY <2>1 DEF SubStruct, Whole, Struct
    <3> QED  BY <1>1, <3>1 DEF ItemSymbols, MemberKinds
  <2>5. /\ Symbolic(b, c, <<e>>) /\ Shape(b, c, <<e>>) = <<>>
        /\ Symbolic(b, c, <<sub>>) /\ Shape(b, c, <<sub>>) = <<x>>
    BY <2>3, <2>4, AgendaOfOne, ShapeOfOne
  <2>6. <<e, sub>> = <<e>> \o <<sub>>
    BY TwoElements
  <2>7. <<>> \o <<x>> = <<x>>
    BY AgendaOfOne, NothingAdded
  <2> QED  BY <2>2, <2>5, <2>6, <2>7, ShapeConcat
<1> HIDE DEF seqs, s
<1>7. Shape(b, c, FlattenSeq(seqs)) = FlattenSeq([j \in 1..Len(seqs) |-> Shape(b, c, seqs[j])])
  BY <1>5, <1>6, ShapeFlattened
<1>8. [j \in 1..Len(seqs) |-> Shape(b, c, seqs[j])] = [j \in 1..Len(s) |-> <<s[j]>>]
  <2>1. \A j \in 1..N : s[j] = x
    BY DEF s
  <2> QED  BY <1>4, <1>5, <1>6, <2>1
<1>9. FlattenSeq([j \in 1..Len(s) |-> <<s[j]>>]) = s
  BY <1>4, FlattenedSingles
<1> QED  BY <1>1, <1>3, <1>7, <1>8, <1>9 DEF seqs, s

-----------------------------------------------------------------------------
(* What the two builds have in common.                                     *)

(* The best version depends on the versions that there are up to it.       *)
LEMMA SameBest ==
  ASSUME NEW w, NEW r, IsBuild(w), IsBuild(r), NEW c \in Nat,
         NEW T \in DOMAIN w.private \cap DOMAIN r.private,
         NEW v \in ToSet(w.private[T]), NEW u \in ToSet(r.private[T]),
         getOriginPrivateVersion(r, T) <= c,
         VersionsFor(w, T, v, c) = VersionsFor(r, T, u, c)
  PROVE  getBestCompatInterfaceVersion(w, T, v, c) = getBestCompatInterfaceVersion(r, T, u, c)
<1>1. PICK x, y : x = getBestCompatInterfaceVersion(w, T, v, c)
                  /\ y = getBestCompatInterfaceVersion(r, T, u, c)
  OBVIOUS
<1>2. /\ y \in ToSet(r.private[T]) /\ y <= u /\ y <= c
      /\ \A p \in ToSet(r.private[T]) : p <= u /\ p <= c => p <= y
  BY <1>1, BestVersion
<1>3. y \in VersionsFor(w, T, v, c)
  BY <1>2 DEF VersionsFor
<1>4. y \in ToSet(w.private[T]) /\ y <= v
  BY <1>3 DEF VersionsFor
<1>5. y \in Nat /\ getOriginPrivateVersion(w, T) \in Nat /\ getOriginPrivateVersion(w, T) <= y
  BY <1>4, PrivateVersions
<1>6. getOriginPrivateVersion(w, T) <= c
  BY <1>2, <1>5
<1>7. /\ x \in ToSet(w.private[T]) /\ x <= v /\ x <= c
      /\ \A p \in ToSet(w.private[T]) : p <= v /\ p <= c => p <= x
  BY <1>1, <1>6, BestVersion
<1>8. x \in VersionsFor(r, T, u, c)
  BY <1>7 DEF VersionsFor
<1>9. x <= y /\ y <= x /\ x \in Nat
  BY <1>2, <1>4, <1>7, <1>8, PrivateVersions DEF VersionsFor
<1> QED  BY <1>1, <1>5, <1>9

(* The message has the same version of a struct for both.                  *)
LEMMA SameLatest ==
  ASSUME NEW w, NEW r, IsBuild(w), IsBuild(r), NEW c \in Nat, SameStructs(w, r, c),
         NEW T \in DOMAIN w.private \cap DOMAIN r.private, getOriginPrivateVersion(r, T) <= c
  PROVE  LatestSymbol(w, c, T) = LatestSymbol(r, c, T)
<1>1. PICK v, u : v = getLatestPrivateVersion(w, T) /\ u = getLatestPrivateVersion(r, T)
  OBVIOUS
<1>2. /\ v \in ToSet(w.private[T]) /\ \A p \in ToSet(w.private[T]) : p <= v
      /\ u \in ToSet(r.private[T]) /\ \A p \in ToSet(r.private[T]) : p <= u
  BY <1>1, PrivateVersions, LatestIs
<1>3. VersionsTill(w, T, c) = VersionsTill(r, T, c)
  BY DEF SameStructs
<1>4. VersionsFor(w, T, v, c) = VersionsTill(w, T, c)
      /\ VersionsFor(r, T, u, c) = VersionsTill(r, T, c)
  BY <1>2 DEF VersionsFor, VersionsTill
<1>5. getBestCompatInterfaceVersion(w, T, v, c) = getBestCompatInterfaceVersion(r, T, u, c)
  BY <1>2, <1>3, <1>4, SameBest
<1> QED  BY <1>1, <1>5 DEF LatestSymbol, StructSymbol

(* A version of a struct that the message may have                         *)
LEMMA SameVersion ==
  ASSUME NEW w, NEW r, NEW c, SameStructs(w, r, c),
         NEW T \in DOMAIN w.private \cap DOMAIN r.private,
         NEW v \in ToSet(r.private[T]), v <= c
  PROVE  v \in ToSet(w.private[T]) /\ SameLayout(w, r, c, T, v)
<1>1. VersionsTill(w, T, c) = VersionsTill(r, T, c)
      /\ \A version \in VersionsTill(w, T, c) : SameLayout(w, r, c, T, version)
  BY DEF SameStructs
<1>2. v \in VersionsTill(w, T, c)
  BY <1>1 DEF VersionsTill
<1> QED  BY <1>1, <1>2 DEF VersionsTill

(* The members of a version of a struct have the same symbols for both.    *)
LEMMA SameSymbols ==
  ASSUME NEW w, NEW r, IsBuild(w), IsBuild(r), NEW c \in Nat, SameStructs(w, r, c),
         NEW T \in DOMAIN w.private \cap DOMAIN r.private,
         NEW v \in ToSet(r.private[T]), v <= c
  PROVE  /\ StructSymbols(w, c, T, v) = StructSymbols(r, c, T, v)
         /\ Names(w, T, v) = Names(r, T, v)
         /\ \A m \in ToSet(r.layout[T][v].members) :
                m.kind # "number" => m.type \in DOMAIN w.private
<1> DEFINE s == w.layout[T][v].members
           t == r.layout[T][v].members
<1>1. v \in ToSet(w.private[T]) /\ SameLayout(w, r, c, T, v) /\ v \in Nat
  BY SameVersion, PrivateVersions
<1>2. Len(s) = Len(t) /\ \A i \in 1..Len(s) : SamePart(w, r, c, s[i], t[i])
  BY <1>1 DEF SameLayout
<1>3. s \in Seq(Members) /\ t \in Seq(Members)
  BY <1>1, LayoutIs
<1>4. /\ \A m \in ToSet(s) : m.kind # "number" =>
           IsPart(w, m) /\ getOriginPrivateVersion(w, m.type) <= v
      /\ \A m \in ToSet(t) : m.kind # "number" =>
           IsPart(r, m) /\ getOriginPrivateVersion(r, m.type) <= v
  BY <1>1, LayoutIs
<1> HIDE DEF s, t
<1>5. /\ IsSequence(s) /\ ToSet(s) = Elements(s) /\ \A i \in 1..Len(s) : s[i] \in Members
      /\ IsSequence(t) /\ ToSet(t) = Elements(t) /\ \A i \in 1..Len(t) : t[i] \in Members
  BY <1>3, SequenceIs
<1>6. ASSUME NEW i \in 1..Len(s)
      PROVE  /\ MemberSymbols(w, c, s[i]) = MemberSymbols(r, c, t[i])
             /\ s[i].name = t[i].name
             /\ t[i].kind # "number" => t[i].type \in DOMAIN w.private
  <2>1. PICK m, k : m = s[i] /\ k = t[i]
    OBVIOUS
  <2>2. m \in ToSet(s) /\ k \in ToSet(t) /\ m \in Members /\ SamePart(w, r, c, m, k)
    BY <1>2, <1>5, <2>1 DEF Elements
  <2>3. /\ m.name = k.name /\ m.kind = k.kind /\ m.type = k.type /\ m.n = k.n
        /\ m.kind \in MemberKinds
        /\ m.kind \in {"member", "array"} =>
             VersionsFor(w, m.type, m.version, c) = VersionsFor(r, k.type, k.version, c)
    BY <2>2 DEF SamePart, Members
  <2>4. ASSUME m.kind # "number"
        PROVE  m.type \in DOMAIN w.private
    <3>1. IsPart(w, m)
      BY <1>4, <2>2, <2>4
    <3> QED  BY <3>1 DEF IsPart
  <2>5. ASSUME m.kind \in {"member", "array"}
        PROVE  StructSymbol(w, c, m.type, m.version) = StructSymbol(r, c, k.type, k.version)
    <3>1. m.kind # "number" /\ m.kind # "pointer"
      BY <2>5
    <3>2. /\ IsPart(w, m) /\ IsPart(r, k) /\ getOriginPrivateVersion(r, k.type) <= v
      BY <1>4, <2>2, <2>3, <3>1
    <3>3. /\ m.type \in DOMAIN w.private \cap DOMAIN r.private
          /\ m.version \in ToSet(w.private[m.type]) /\ k.version \in ToSet(r.private[m.type])
      BY <2>3, <3>1, <3>2 DEF IsPart
    <3>4. getOriginPrivateVersion(r, m.type) <= c
      <4>1. getOriginPrivateVersion(r, m.type) \in Nat
        BY <3>3, LatestIs
      <4> QED  BY <1>1, <2>3, <3>2, <4>1
    <3>5. getBestCompatInterfaceVersion(w, m.type, m.version, c)
            = getBestCompatInterfaceVersion(r, m.type, k.version, c)
      BY <2>3, <2>5, <3>3, <3>4, SameBest
    <3> QED  BY <2>3, <3>5 DEF StructSymbol
  <2>6. MemberSymbols(w, c, m) = MemberSymbols(r, c, k)
    <3>1. CASE m.kind = "number"
      BY <2>3, <3>1 DEF MemberSymbols
    <3>2. CASE m.kind = "pointer"
      BY <2>3, <3>2 DEF MemberSymbols
    <3>3. CASE m.kind = "member"
      BY <2>3, <2>5, <3>3 DEF MemberSymbols
    <3>4. CASE m.kind = "array"
      BY <2>3, <2>5, <3>4 DEF MemberSymbols
    <3> QED  BY <2>3, <3>1, <3>2, <3>3, <3>4 DEF MemberKinds
  <2> QED  BY <2>1, <2>3, <2>4, <2>6
<1>7. StructSymbols(w, c, T, v) = StructSymbols(r, c, T, v)
  <2>1. [i \in 1..Len(s) |-> MemberSymbols(w, c, s[i])]
          = [i \in 1..Len(t) |-> MemberSymbols(r, c, t[i])]
    BY <1>2, <1>6
  <2> QED  BY <2>1 DEF StructSymbols, s, t
<1>8. Names(w, T, v) = Names(r, T, v)
  <2>1. /\ Names(w, T, v) = {m.name : m \in Elements(s)}
        /\ Names(r, T, v) = {m.name : m \in Elements(t)}
    BY <1>5 DEF Names, s, t
  <2> QED  BY <1>2, <1>6, <2>1 DEF Elements
<1>9. \A m \in ToSet(t) : m.kind # "number" => m.type \in DOMAIN w.private
  BY <1>2, <1>5, <1>6 DEF Elements
<1> QED  BY <1>7, <1>8, <1>9 DEF t

(* Both copy the bytes of a struct, or neither does.                       *)
LEMMA SameAssignment ==
  ASSUME NEW w, NEW r, NEW c, SameStructs(w, r, c),
         NEW T \in DOMAIN w.private \cap DOMAIN r.private,
         NEW v \in ToSet(r.private[T]), v <= c,
         NEW x, NEW y, x.version = c, y.version = c, x.flags = y.flags,
         x.endiannessDifference = y.endiannessDifference
  PROVE  SimplyAssigned(w.layout[T][v], x) <=> SimplyAssigned(r.layout[T][v], y)
<1>1. PICK known, legacy : known = w.layout[T][v] /\ legacy = r.layout[T][v]
  OBVIOUS
<1>2. /\ known.tag = legacy.tag
      /\ known.tag # "none" =>
           /\ known.endiannessTolerant = legacy.endiannessTolerant
           /\ known.latest <= c <=> legacy.latest <= c
  BY <1>1, SameVersion DEF SameLayout
<1>3. CASE known.tag = "none"
  BY <1>1, <1>2, <1>3 DEF SimplyAssigned
<1>4. CASE known.tag # "none"
  BY <1>1, <1>2, <1>4 DEF SimplyAssigned
<1> QED  BY <1>3, <1>4

(* A struct that is copied as bytes is of the version of the message.      *)
LEMMA AssignedIsBest ==
  ASSUME NEW b, IsBuild(b), NEW T \in DOMAIN b.private, NEW v \in ToSet(b.private[T]),
         NEW ctx \in Contexts, SimplyAssigned(b.layout[T][v], ctx)
  PROVE  /\ v \in Nat /\ v <= ctx.version /\ ctx.version \in Nat
         /\ getBestCompatInterfaceVersion(b, T, v, ctx.version) = v
<1>1. ctx.version \in Nat /\ v \in Nat /\ getOriginPrivateVersion(b, T) \in Nat
      /\ getOriginPrivateVersion(b, T) <= v
  BY LatestIs, PrivateVersions DEF Contexts
<1>2. b.layout[T][v].latest \in Nat /\ v <= b.layout[T][v].latest
  BY LayoutIs
<1>3. b.layout[T][v].latest <= ctx.version
  BY DEF SimplyAssigned
<1>4. v <= ctx.version /\ getOriginPrivateVersion(b, T) <= ctx.version
  BY <1>1, <1>2, <1>3
<1> QED  BY <1>1, <1>4, BestVersion

(* The symbol of a struct has the version that the message has of it.      *)
LEMMA SymbolVersion ==
  ASSUME NEW b, IsBuild(b), NEW ctx \in Contexts, NEW item,
         StructInMessage(b, ctx, item.type, item.version),
         NEW target, target = VersionInMessage(b, item, ctx)
  PROVE  /\ getBestCompatInterfaceVersion(b, item.type, item.version, ctx.version) = target
         /\ getBestCompatInterfaceVersion(b, item.type, target, ctx.version) = target
<1>1. /\ item.type \in DOMAIN b.private /\ item.version \in ToSet(b.private[item.type])
      /\ target \in ToSet(b.private[item.type]) /\ target <= ctx.version /\ ctx.version \in Nat
      /\ target # item.version => ctx.notMatch
  BY MessageVersion
<1>2. getOriginPrivateVersion(b, item.type) <= ctx.version
  BY DEF StructInMessage, InMessage
<1>3. getBestCompatInterfaceVersion(b, item.type, target, ctx.version) = target
  BY <1>1, <1>2, BestVersion
<1>4. CASE ctx.notMatch
  BY <1>3, <1>4 DEF VersionInMessage
<1>5. CASE ~ctx.notMatch
  BY <1>1, <1>3, <1>5
<1> QED  BY <1>3, <1>4, <1>5

-----------------------------------------------------------------------------
(* The grammar.                                                            *)

(* What is to do first, and the rest                                       *)
LEMMA FirstOf ==
  ASSUME NEW s, NEW rest, IsSequence(rest)
  PROVE  /\ Head(<<s>> \o rest) = s /\ Tail(<<s>> \o rest) = rest
         /\ <<s>> \o rest # <<>> /\ IsSequence(<<s>> \o rest)
<1> DEFINE S == {s} \cup Elements(rest)
<1>1. rest \in Seq(S) /\ s \in S
  <2>1. rest \in Seq(Elements(rest))
    BY SequenceOfElements
  <2> QED  BY <2>1
<1>2. IsSequence(<<s>> \o rest)
  BY AgendaOfOne, Concatenated
<1> HIDE DEF S
<1>3. PICK t : t = <<s>> /\ t \in Seq(S) /\ Len(t) = 1 /\ t[1] = s
  <2>1. <<s>> \in Seq(S) /\ Len(<<s>>) = 1 /\ <<s>>[1] = s
    BY <1>1
  <2> QED  BY <2>1
<1>4. Head(t \o rest) = s /\ t \o rest # <<>>
  BY <1>1, <1>3
<1>5. Tail(t \o rest) = rest
  BY <1>1, <1>3
<1> QED  BY <1>2, <1>3, <1>4, <1>5

(* What is to do first and the rest, as one                                *)
First(s, rest) == <<s>> \o rest

(* A reading with this to do first, then the rest, from a place            *)
Facing(x, s, rest, at) ==
  /\ x.todo # <<>> /\ Head(x.todo) = s /\ Tail(x.todo) = rest /\ IsSequence(rest)
  /\ x.at = at

(* A reading that was made so does face it.                                *)
LEMMA ReadingFaces ==
  ASSUME NEW s, NEW rest, NEW at, IsSequence(rest)
  PROVE  Facing(Reading(First(s, rest), at), s, rest, at)
BY FirstOf DEF Reading, Facing, First

(* A number is met by a number.                                            *)
LEMMA NumberMeets ==
  ASSUME NEW b, NEW ctx, NEW tokens, NEW rest, NEW x, NEW at, Facing(x, NumberSymbol, rest, at)
  PROVE  Meets(b, ctx, tokens, x) <=>
           at \in 0..(Len(tokens) - 1) /\ tokens[at + 1][1] = "number"
<1>1. Head(x.todo) = NumberSymbol /\ x.todo # <<>> /\ x.at = at
  BY DEF Facing
<1>2. NumberSymbol.do = "number"
  BY DEF NumberSymbol
<1> QED  BY <1>1, <1>2 DEF Meets

(* It is followed by nothing.                                              *)
LEMMA AfterNumber ==
  ASSUME NEW b, NEW ctx, NEW tokens, NEW rest, NEW x, NEW at \in Nat,
         Facing(x, NumberSymbol, rest, at)
  PROVE  After(b, ctx, tokens, x) = Reading(rest, at + 1)
<1>1. Head(x.todo) = NumberSymbol /\ Tail(x.todo) = rest /\ x.at = at
  BY DEF Facing
<1>2. NumberSymbol.do = "number"
  BY DEF NumberSymbol
<1>3. <<>> \o rest = rest
  BY NothingAdded DEF Facing
<1> QED  BY <1>1, <1>2, <1>3 DEF After

(* A pointer is met by a prefix.                                           *)
LEMMA PointerMeets ==
  ASSUME NEW b, NEW ctx, NEW tokens, NEW rest, NEW x, NEW T, NEW at,
         Facing(x, PointerSymbol(T), rest, at)
  PROVE  Meets(b, ctx, tokens, x) <=>
           /\ "allowUnmanagedPointers" \in ctx.flags
           /\ at \in 0..(Len(tokens) - 1) /\ tokens[at + 1][1] = Prefix(ctx)
           /\ tokens[at + 1][2] \in 0..at
<1>1. Head(x.todo) = PointerSymbol(T) /\ x.todo # <<>> /\ x.at = at
  BY DEF Facing
<1>2. PointerSymbol(T).do = "pointer" /\ PointerSymbol(T).type = T
  BY DEF PointerSymbol
<1> QED  BY <1>1, <1>2 DEF Meets

(* The prefix 1 is followed by an object.                                  *)
LEMMA AfterNew ==
  ASSUME NEW b, NEW ctx, NEW tokens, NEW rest, NEW x, NEW T, NEW at \in Nat,
         Facing(x, PointerSymbol(T), rest, at), tokens[at + 1][2] = 1
  PROVE  After(b, ctx, tokens, x)
           = Reading(First(LatestSymbol(b, ctx.version, T), rest), at + 1)
<1>1. Head(x.todo) = PointerSymbol(T) /\ Tail(x.todo) = rest /\ x.at = at
  BY DEF Facing
<1>2. PointerSymbol(T).do = "pointer" /\ PointerSymbol(T).type = T
  BY DEF PointerSymbol
<1> QED  BY <1>1, <1>2 DEF After, First

(* Another is followed by nothing.                                         *)
LEMMA AfterKnown ==
  ASSUME NEW b, NEW ctx, NEW tokens, NEW rest, NEW x, NEW T, NEW at \in Nat,
         Facing(x, PointerSymbol(T), rest, at), tokens[at + 1][2] # 1
  PROVE  After(b, ctx, tokens, x) = Reading(rest, at + 1)
<1>1. Head(x.todo) = PointerSymbol(T) /\ Tail(x.todo) = rest /\ x.at = at
  BY DEF Facing
<1>2. PointerSymbol(T).do = "pointer" /\ PointerSymbol(T).type = T
  BY DEF PointerSymbol
<1>3. <<>> \o rest = rest
  BY NothingAdded DEF Facing
<1> QED  BY <1>1, <1>2, <1>3 DEF After

(* A struct is copied as bytes.                                            *)
InBytes(b, ctx, T, v) == SimplyAssigned(b.layout[T][v], ctx)

(* The bytes of a struct of a version stand at a place.                    *)
BytesAt(b, tokens, T, v, i) ==
  /\ i \in 1..Len(tokens) /\ tokens[i][1] = "bytes"
  /\ DOMAIN tokens[i][2] = Names(b, T, v)

(* A struct that is copied is met by its bytes.                            *)
LEMMA BytesMeet ==
  ASSUME NEW b, NEW ctx, NEW tokens, NEW rest, NEW x, NEW T, NEW v, NEW at \in Nat,
         Facing(x, VersionSymbol(T, v), rest, at), InBytes(b, ctx, T, v)
  PROVE  Meets(b, ctx, tokens, x) <=> BytesAt(b, tokens, T, v, at + 1)
<1>1. Head(x.todo) = VersionSymbol(T, v) /\ x.at = at
  BY DEF Facing
<1>2. Head(x.todo).do = "struct" /\ Head(x.todo).type = T /\ Head(x.todo).version = v
  BY <1>1 DEF VersionSymbol
<1>3. SimplyAssigned(b.layout[T][v], ctx)
  BY DEF InBytes
<1>4. Meets(b, ctx, tokens, x) <=>
        /\ at \in 0..(Len(tokens) - 1) /\ tokens[at + 1][1] = "bytes"
        /\ DOMAIN tokens[at + 1][2] = Names(b, T, v)
  BY <1>1, <1>2, <1>3 DEF Meets
<1> QED  BY <1>4 DEF BytesAt

(* The reading goes on after those bytes.                                  *)
LEMMA AfterBytes ==
  ASSUME NEW b, NEW ctx, NEW tokens, NEW rest, NEW x, NEW T, NEW v, NEW at \in Nat,
         Facing(x, VersionSymbol(T, v), rest, at), InBytes(b, ctx, T, v)
  PROVE  After(b, ctx, tokens, x) = Reading(rest, at + 1)
<1>1. Head(x.todo) = VersionSymbol(T, v) /\ Tail(x.todo) = rest /\ x.at = at
  BY DEF Facing
<1>2. Head(x.todo).do = "struct" /\ Head(x.todo).type = T /\ Head(x.todo).version = v
  BY <1>1 DEF VersionSymbol
<1>3. SimplyAssigned(b.layout[T][v], ctx)
  BY DEF InBytes
<1>4. <<>> \o rest = rest
  BY NothingAdded DEF Facing
<1> QED  BY <1>1, <1>2, <1>3, <1>4 DEF After

(* Another is met by its members, wherever it is.                          *)
LEMMA MembersMeet ==
  ASSUME NEW b, NEW ctx, NEW tokens, NEW rest, NEW x, NEW T, NEW v, NEW at,
         Facing(x, VersionSymbol(T, v), rest, at), ~InBytes(b, ctx, T, v)
  PROVE  Meets(b, ctx, tokens, x)
<1>1. Head(x.todo) = VersionSymbol(T, v)
  BY DEF Facing
<1>2. Head(x.todo).do = "struct" /\ Head(x.todo).type = T /\ Head(x.todo).version = v
  BY <1>1 DEF VersionSymbol
<1>3. ~SimplyAssigned(b.layout[T][v], ctx)
  BY DEF InBytes
<1> QED  BY <1>1, <1>2, <1>3 DEF Meets

(* The reading goes on with the members, at the same place.                *)
LEMMA AfterMembers ==
  ASSUME NEW b, NEW ctx, NEW tokens, NEW rest, NEW x, NEW T, NEW v, NEW at \in Nat,
         Facing(x, VersionSymbol(T, v), rest, at), ~InBytes(b, ctx, T, v)
  PROVE  After(b, ctx, tokens, x) = Reading(StructSymbols(b, ctx.version, T, v) \o rest, at)
<1>1. Head(x.todo) = VersionSymbol(T, v) /\ Tail(x.todo) = rest /\ x.at = at
  BY DEF Facing
<1>2. Head(x.todo).do = "struct" /\ Head(x.todo).type = T /\ Head(x.todo).version = v
  BY <1>1 DEF VersionSymbol
<1>3. ~SimplyAssigned(b.layout[T][v], ctx)
  BY DEF InBytes
<1>4. After(b, ctx, tokens, x) = Reading(StructSymbols(b, ctx.version, T, v) \o rest, at + 0)
  BY <1>1, <1>2, <1>3 DEF After
<1>5. at + 0 = at
  OBVIOUS
<1> QED  BY <1>4, <1>5

-----------------------------------------------------------------------------
(* Where a reading leads.                                                  *)

(* It goes on with what it meets.                                          *)
LEMMA LeadsOn ==
  ASSUME NEW b, NEW ctx, NEW tokens, NEW x, NEW y, Leads(b, ctx, tokens, x, y),
         y.todo # <<>>, Meets(b, ctx, tokens, y)
  PROVE  Leads(b, ctx, tokens, x, After(b, ctx, tokens, y))
BY DEF Leads, Closed

(* It leads to where it is.                                                *)
LEMMA LeadsHere ==
  ASSUME NEW b, NEW ctx, NEW tokens, NEW x
  PROVE  Leads(b, ctx, tokens, x, x)
BY DEF Leads

(* What is written later does not change what was written.                 *)
LEMMA LeadsKept ==
  ASSUME NEW b, NEW ctx, NEW tokens, NEW more, IsSequence(tokens), IsSequence(more),
         NEW x, NEW y, Leads(b, ctx, tokens, x, y)
  PROVE  Leads(b, ctx, tokens \o more, x, y)
<1> DEFINE all == tokens \o more
<1>1. /\ Len(all) = Len(tokens) + Len(more) /\ Len(tokens) \in Nat /\ Len(more) \in Nat
      /\ \A i \in 1..Len(all) :
             all[i] = IF i <= Len(tokens) THEN tokens[i] ELSE more[i - Len(tokens)]
  BY Concatenated DEF IsSequence
<1> HIDE DEF all
<1>2. ASSUME NEW i \in 0..(Len(tokens) - 1)
      PROVE  i \in 0..(Len(all) - 1) /\ all[i + 1] = tokens[i + 1]
  <2>1. i + 1 \in 1..Len(all) /\ i + 1 <= Len(tokens) /\ i \in 0..(Len(all) - 1)
    BY <1>1
  <2> QED  BY <1>1, <2>1
<1>3. ASSUME NEW R, x \in R, Closed(b, ctx, all, R)
      PROVE  y \in R
  <2>1. ASSUME NEW z \in R, z.todo # <<>>, Meets(b, ctx, tokens, z)
        PROVE  After(b, ctx, tokens, z) \in R
    <3>1. PICK next : next = Head(z.todo)
      OBVIOUS
    <3>2. CASE next.do = "number"
      <4>1. z.at \in 0..(Len(tokens) - 1) /\ tokens[z.at + 1][1] = "number"
        BY <2>1, <3>1, <3>2 DEF Meets
      <4>2. Meets(b, ctx, all, z)
        BY <1>2, <3>1, <3>2, <4>1 DEF Meets
      <4>3. After(b, ctx, all, z) = After(b, ctx, tokens, z)
        BY <3>1, <3>2 DEF After
      <4> QED  BY <1>3, <2>1, <4>2, <4>3 DEF Closed
    <3>3. CASE next.do = "pointer"
      <4>1. /\ "allowUnmanagedPointers" \in ctx.flags
            /\ z.at \in 0..(Len(tokens) - 1) /\ tokens[z.at + 1][1] = Prefix(ctx)
            /\ tokens[z.at + 1][2] \in 0..z.at
        BY <2>1, <3>1, <3>3 DEF Meets
      <4>2. Meets(b, ctx, all, z)
        BY <1>2, <3>1, <3>3, <4>1 DEF Meets
      <4>3. After(b, ctx, all, z) = After(b, ctx, tokens, z)
        BY <1>2, <3>1, <3>3, <4>1 DEF After
      <4> QED  BY <1>3, <2>1, <4>2, <4>3 DEF Closed
    <3>4. CASE next.do # "number" /\ next.do # "pointer"
      <4>1. SimplyAssigned(b.layout[next.type][next.version], ctx) =>
              /\ z.at \in 0..(Len(tokens) - 1) /\ tokens[z.at + 1][1] = "bytes"
              /\ DOMAIN tokens[z.at + 1][2] = Names(b, next.type, next.version)
        BY <2>1, <3>1, <3>4 DEF Meets
      <4>2. Meets(b, ctx, all, z)
        BY <1>2, <3>1, <3>4, <4>1 DEF Meets
      <4>3. After(b, ctx, all, z) = After(b, ctx, tokens, z)
        BY <3>1, <3>4 DEF After
      <4> QED  BY <1>3, <2>1, <4>2, <4>3 DEF Closed
    <3> QED  BY <3>2, <3>3, <3>4
  <2>2. Closed(b, ctx, tokens, R)
    BY <2>1 DEF Closed
  <2> QED  BY <1>3, <2>2 DEF Leads
<1> QED  BY <1>3 DEF Leads, all

(* To come anywhere else it must meet what it has to do.                   *)
LEMMA MustMeet ==
  ASSUME NEW b, NEW ctx, NEW tokens, NEW x, NEW y, Leads(b, ctx, tokens, x, y),
         x # y, x.todo # <<>>
  PROVE  Meets(b, ctx, tokens, x) /\ Leads(b, ctx, tokens, After(b, ctx, tokens, x), y)
<1>1. Meets(b, ctx, tokens, x)
  <2>1. ~Meets(b, ctx, tokens, x) => Closed(b, ctx, tokens, {x})
    BY DEF Closed
  <2> QED  BY <2>1 DEF Leads
<1>2. ASSUME NEW R, After(b, ctx, tokens, x) \in R, Closed(b, ctx, tokens, R)
      PROVE  y \in R
  <2>1. Closed(b, ctx, tokens, R \cup {x})
    BY <1>2 DEF Closed
  <2>2. y \in R \cup {x}
    BY <2>1 DEF Leads
  <2> QED  BY <2>2
<1> QED  BY <1>1, <1>2 DEF Leads

(* With nothing to do it leads nowhere else.                               *)
LEMMA NothingLeft ==
  ASSUME NEW b, NEW ctx, NEW tokens, NEW x, NEW y, Leads(b, ctx, tokens, x, y), x.todo = <<>>
  PROVE  x = y
<1>1. Closed(b, ctx, tokens, {x})
  BY DEF Closed
<1> QED  BY <1>1 DEF Leads

(* Copies of one symbol, and then the rest                                 *)
Copies(s, n, rest) == [j \in 1..n |-> s] \o rest

(* The first of them, and the others                                       *)
LEMMA CopiesAre ==
  ASSUME NEW s, NEW rest, NEW n \in Nat, IsSequence(rest)
  PROVE  /\ IsSequence(Copies(s, n, rest))
         /\ Copies(s, n + 1, rest) = First(s, Copies(s, n, rest))
<1>1. PICK c, f : c = [j \in 1..n |-> s] /\ f = <<s>>
  OBVIOUS
<1>2. IsSequence(c) /\ Len(c) = n /\ \A j \in 1..n : c[j] = s
  BY <1>1 DEF IsSequence
<1>3. IsSequence(f) /\ Len(f) = 1 /\ f[1] = s
  BY <1>1, AgendaOfOne
<1>4. f \o c = [j \in 1..(n + 1) |-> s]
  <2>1. PICK u : u = f \o c
    OBVIOUS
  <2>2. /\ IsSequence(u) /\ Len(u) = 1 + n
        /\ \A i \in 1..Len(u) : u[i] = IF i <= 1 THEN f[i] ELSE c[i - 1]
    <3>1. Len(u) = 1 + n /\ IsSequence(u)
      BY <1>2, <1>3, <2>1, Concatenated
    <3>2. IsSequence(f) /\ IsSequence(c)
      BY <1>2, <1>3
    <3>3. \A i \in 1..Len(u) : u[i] = IF i <= Len(f) THEN f[i] ELSE c[i - Len(f)]
      BY <2>1, <3>2, Concatenated
    <3> QED  BY <1>3, <3>1, <3>3
  <2>3. ASSUME NEW i \in 1..(n + 1)
        PROVE  u[i] = s
    <3>1. CASE i = 1
      BY <1>3, <2>2, <3>1
    <3>2. CASE i # 1
      <4>1. i - 1 \in 1..n /\ ~(i <= 1) /\ i \in 1..Len(u)
        BY <2>2, <3>2
      <4> QED  BY <1>2, <2>2, <4>1
    <3> QED  BY <3>1, <3>2
  <2>4. u = [i \in 1..(n + 1) |-> u[i]]
    BY <2>2 DEF IsSequence
  <2> QED  BY <2>1, <2>3, <2>4
<1>5. IsSequence(c \o rest) /\ (f \o c) \o rest = f \o (c \o rest)
  BY <1>2, <1>3, Concatenated, Associates
<1> QED  BY <1>1, <1>4, <1>5 DEF Copies, First

(* There may be none.                                                      *)
LEMMA NoCopies ==
  ASSUME NEW s, NEW rest, IsSequence(rest)
  PROVE  Copies(s, 0, rest) = rest
<1>1. [j \in 1..0 |-> s] = <<>>
  OBVIOUS
<1> QED  BY <1>1, NothingAdded DEF Copies

(* A reading goes on over the bytes of an array.                           *)
LEMMA LeadsOverArray ==
  ASSUME NEW b, NEW ctx, NEW tokens, NEW T, NEW v, NEW rest, NEW n \in Nat, NEW at \in Nat,
         NEW x, InBytes(b, ctx, T, v), IsSequence(rest),
         \A j \in 1..n : BytesAt(b, tokens, T, v, at + j),
         Leads(b, ctx, tokens, x, Reading(Copies(VersionSymbol(T, v), n, rest), at))
  PROVE  Leads(b, ctx, tokens, x, Reading(rest, at + n))
<1> DEFINE s == VersionSymbol(T, v)
           y(k) == Reading(Copies(s, n - k, rest), at + k)
           M == {k \in Nat : k <= n => Leads(b, ctx, tokens, x, y(k))}
<1>1. 0 \in M
  <2>1. n - 0 = n /\ at + 0 = at
    OBVIOUS
  <2> QED  BY <2>1
<1>2. ASSUME NEW k \in Nat, k \in M
      PROVE  k + 1 \in M
  <2> SUFFICES ASSUME k + 1 <= n
               PROVE  Leads(b, ctx, tokens, x, y(k + 1))
    OBVIOUS
  <2>1. PICK l \in Nat : l = n - (k + 1)
    OBVIOUS
  <2>2. PICK p \in Nat : p = at + k
    OBVIOUS
  <2>3. PICK todo : todo = Copies(s, l, rest)
    OBVIOUS
  <2> HIDE DEF s
  <2>4. IsSequence(todo) /\ Copies(s, l + 1, rest) = First(s, todo)
    BY <2>3, CopiesAre
  <2>5. l + 1 = n - k /\ p + 1 = at + (k + 1)
    BY <2>1, <2>2
  <2>6. y(k) = Reading(First(s, todo), p) /\ y(k + 1) = Reading(todo, p + 1)
    BY <2>1, <2>2, <2>3, <2>4, <2>5
  <2>7. BytesAt(b, tokens, T, v, p + 1)
    <3>1. k + 1 \in 1..n
      OBVIOUS
    <3> QED  BY <2>5, <3>1
  <2>8. Leads(b, ctx, tokens, x, y(k))
    BY <1>2
  <2> HIDE DEF y
  <2>9. Facing(y(k), VersionSymbol(T, v), todo, p)
    BY <2>4, <2>6, ReadingFaces DEF s
  <2>10. y(k).todo # <<>> /\ Meets(b, ctx, tokens, y(k)) /\ After(b, ctx, tokens, y(k)) = y(k + 1)
    <3>1. y(k).todo # <<>>
      BY <2>9 DEF Facing
    <3>2. Meets(b, ctx, tokens, y(k))
      BY <2>7, <2>9, BytesMeet
    <3>3. After(b, ctx, tokens, y(k)) = y(k + 1)
      BY <2>6, <2>9, AfterBytes
    <3> QED  BY <3>1, <3>2, <3>3
  <2> QED  BY <2>8, <2>10, LeadsOn
<1> HIDE DEF M
<1>3. n \in M
  BY <1>1, <1>2, NumbersByInduction
<1>4. Leads(b, ctx, tokens, x, y(n))
  BY <1>3 DEF M
<1>5. n - n = 0 /\ Copies(s, 0, rest) = rest
  BY NoCopies
<1> QED  BY <1>4, <1>5

(* To come to the end it must meet all the bytes of an array.              *)
LEMMA MustMeetArray ==
  ASSUME NEW b, NEW ctx, NEW tokens, NEW T, NEW v, NEW rest, NEW n \in Nat, NEW at \in Nat,
         NEW x, InBytes(b, ctx, T, v), IsSequence(rest), x.todo = <<>>,
         Leads(b, ctx, tokens, Reading(Copies(VersionSymbol(T, v), n, rest), at), x)
  PROVE  /\ \A j \in 1..n : BytesAt(b, tokens, T, v, at + j)
         /\ Leads(b, ctx, tokens, Reading(rest, at + n), x)
<1> DEFINE s == VersionSymbol(T, v)
           y(k) == Reading(Copies(s, n - k, rest), at + k)
           met(k) == \A j \in 1..k : BytesAt(b, tokens, T, v, at + j)
           M == {k \in Nat : k <= n => Leads(b, ctx, tokens, y(k), x) /\ met(k)}
<1>1. 0 \in M
  <2>1. n - 0 = n /\ at + 0 = at
    OBVIOUS
  <2> QED  BY <2>1
<1>2. ASSUME NEW k \in Nat, k \in M
      PROVE  k + 1 \in M
  <2> SUFFICES ASSUME k + 1 <= n
               PROVE  Leads(b, ctx, tokens, y(k + 1), x) /\ met(k + 1)
    OBVIOUS
  <2>1. PICK l \in Nat : l = n - (k + 1)
    OBVIOUS
  <2>2. PICK p \in Nat : p = at + k
    OBVIOUS
  <2>3. PICK todo : todo = Copies(s, l, rest)
    OBVIOUS
  <2> HIDE DEF s
  <2>4. IsSequence(todo) /\ Copies(s, l + 1, rest) = First(s, todo)
    BY <2>3, CopiesAre
  <2>5. l + 1 = n - k /\ p + 1 = at + (k + 1)
    BY <2>1, <2>2
  <2>6. y(k) = Reading(First(s, todo), p) /\ y(k + 1) = Reading(todo, p + 1)
    BY <2>1, <2>2, <2>3, <2>4, <2>5
  <2>7. Leads(b, ctx, tokens, y(k), x) /\ met(k)
    BY <1>2
  <2> HIDE DEF y, met
  <2>8. Facing(y(k), VersionSymbol(T, v), todo, p)
    BY <2>4, <2>6, ReadingFaces DEF s
  <2>9. y(k).todo # <<>> /\ y(k) # x
    BY <2>8 DEF Facing
  <2>10. Meets(b, ctx, tokens, y(k)) /\ Leads(b, ctx, tokens, After(b, ctx, tokens, y(k)), x)
    BY <2>7, <2>9, MustMeet
  <2>11. BytesAt(b, tokens, T, v, at + (k + 1))
    <3>1. BytesAt(b, tokens, T, v, p + 1)
      BY <2>8, <2>10, BytesMeet
    <3> QED  BY <2>5, <3>1
  <2>12. After(b, ctx, tokens, y(k)) = y(k + 1)
    BY <2>6, <2>8, AfterBytes
  <2>13. met(k + 1)
    <3>1. \A j \in 1..(k + 1) : j = k + 1 \/ j \in 1..k
      OBVIOUS
    <3> QED  BY <2>7, <2>11, <3>1 DEF met
  <2> QED  BY <2>10, <2>12, <2>13
<1> HIDE DEF M
<1>3. n \in M
  BY <1>1, <1>2, NumbersByInduction
<1>4. Leads(b, ctx, tokens, y(n), x) /\ met(n)
  BY <1>3 DEF M
<1>5. n - n = 0 /\ Copies(s, 0, rest) = rest
  BY NoCopies
<1> QED  BY <1>4, <1>5

-----------------------------------------------------------------------------
(* What a step does to all that is to come.                                *)

(* Symbols, and then the rest                                              *)
Then(symbols, rest) == symbols \o rest

(* One symbol, several and none                                            *)
LEMMA ThenIs ==
  ASSUME NEW s, NEW n, NEW rest, IsSequence(rest)
  PROVE  /\ Then(<<s>>, rest) = First(s, rest) /\ Then(<<>>, rest) = rest
         /\ Then([j \in 1..n |-> s], rest) = Copies(s, n, rest)
<1>1. <<>> \o rest = rest
  BY NothingAdded
<1>2. Then(<<s>>, rest) = First(s, rest)
  BY DEF Then, First
<1>3. Then([j \in 1..n |-> s], rest) = Copies(s, n, rest)
  BY DEF Then, Copies
<1> QED  BY <1>1, <1>2, <1>3 DEF Then

(* What is first on the agenda comes to its symbols, and so do the items that replace it. *)
LEMMA AgendaShape ==
  ASSUME NEW b, NEW c, NEW old, NEW items, Symbolic(b, c, old), old # <<>>,
         Symbolic(b, c, items)
  PROVE  /\ Shape(b, c, old) = Then(ItemSymbols(b, c, Head(old)), Shape(b, c, Tail(old)))
         /\ Shape(b, c, items \o Tail(old)) = Then(Shape(b, c, items), Shape(b, c, Tail(old)))
         /\ IsSequence(Shape(b, c, Tail(old)))
<1>1. /\ Shape(b, c, old) = ItemSymbols(b, c, Head(old)) \o Shape(b, c, Tail(old))
      /\ Symbolic(b, c, Tail(old))
  BY ShapeHead
<1>2. PICK rest : rest = Tail(old)
  OBVIOUS
<1>3. Symbolic(b, c, rest)
  BY <1>1, <1>2
<1>4. Shape(b, c, items \o rest) = Shape(b, c, items) \o Shape(b, c, rest)
  BY <1>3, ShapeConcat
<1>5. IsSequence(Shape(b, c, rest))
  BY <1>3, SymbolsAre
<1>6. Shape(b, c, items \o rest) = Then(Shape(b, c, items), Shape(b, c, rest))
  BY <1>4 DEF Then
<1>7. Shape(b, c, old) = Then(ItemSymbols(b, c, Head(old)), Shape(b, c, Tail(old)))
  BY <1>1 DEF Then
<1> QED  BY <1>2, <1>5, <1>6, <1>7

(* What a step of the writer finds                                         *)
LEMMA WriterIsAt ==
  ASSUME ReadingInv, phase = "write", agenda # <<>>,
         NEW rest, rest = Shape(writer, sctx.version, Tail(agenda))
  PROVE  /\ IsSequence(rest) /\ IsSequence(out) /\ Len(out) \in Nat /\ Len(out) >= Len(Header)
         /\ Leads(writer, sctx, out, Start,
                  Reading(Then(ItemSymbols(writer, sctx.version, Head(agenda)), rest), Len(out)))
         /\ IsItem(writer, sctx, made, Head(agenda)) /\ ItemSuits(writer, sctx, Head(agenda))
         /\ IsBuild(writer) /\ sctx \in Contexts /\ sctx.version \in Nat /\ pair \in Pairs
         /\ IsSequence(agenda) /\ \A x \in Elements(agenda) : IsItem(writer, sctx, made, x)
<1>1. BodyInv /\ Typed /\ TypeOK /\ IsAgenda /\ WritingLeads /\ ItemsSuit
  BY DEF ReadingInv, BodyInv, Typed
<1>2. /\ IsItem(writer, sctx, made, Head(agenda)) /\ IsBuild(writer) /\ sctx \in Contexts
      /\ IsSequence(out) /\ Len(out) \in Nat /\ Len(out) >= Len(Header)
  BY <1>1, WritersItem
<1>3. IsSequence(agenda) /\ \A x \in Elements(agenda) : IsItem(writer, sctx, made, x)
  BY <1>1 DEF IsAgenda, Worker, WorkerContext
<1>4. Head(agenda) \in Elements(agenda)
  BY <1>3, TailElements
<1>5. Symbolic(writer, sctx.version, agenda)
  BY <1>2, <1>3, ItemsAreSymbolic
<1>6. /\ IsSequence(rest)
      /\ Shape(writer, sctx.version, agenda)
           = Then(ItemSymbols(writer, sctx.version, Head(agenda)), rest)
  BY <1>5, AgendaShape
<1>7. Leads(writer, sctx, out, Start, Reading(Shape(writer, sctx.version, agenda), Len(out)))
  BY <1>1 DEF WritingLeads
<1>8. ItemSuits(writer, sctx, Head(agenda))
  BY <1>1, <1>4 DEF ItemsSuit, Worker, WorkerContext
<1>9. pair \in Pairs /\ sctx.version \in Nat
  BY <1>1, <1>2 DEF Typed, Contexts
<1> QED  BY <1>2, <1>3, <1>6, <1>7, <1>8, <1>9

(* A step of the writer keeps it if what was written leads to what is left. *)
LEMMA WriterLeadsOn ==
  ASSUME ReadingInv, BodyInv', phase = "write", agenda # <<>>,
         UNCHANGED <<pair, sctx, phase, status>>,
         NEW items, IsSequence(items), agenda' = items \o Tail(agenda),
         \A x \in Elements(items) :
           IsItem(writer, sctx, made, x) /\ ItemSuits(writer, sctx, x),
         NEW rest, rest = Shape(writer, sctx.version, Tail(agenda)),
         Leads(writer, sctx, out', Start,
               Reading(Then(Shape(writer, sctx.version, items), rest), Len(out')))
  PROVE  ReadingInv'
<1>1. /\ IsBuild(writer) /\ IsSequence(agenda)
      /\ \A x \in Elements(agenda) : IsItem(writer, sctx, made, x)
  BY WriterIsAt
<1>2. /\ phase' = "write" /\ sctx' = sctx /\ status' = status /\ pair' = pair
      /\ writer' = writer /\ reader' = reader
  BY DEF writer, reader
<1>3. Shape(writer, sctx.version, agenda') = Then(Shape(writer, sctx.version, items), rest)
  <2>1. Symbolic(writer, sctx.version, agenda) /\ Symbolic(writer, sctx.version, items)
    BY <1>1, ItemsAreSymbolic
  <2> QED  BY <2>1, AgendaShape
<1>4. Start' = Start
  BY <1>2 DEF Start
<1>5. WritingLeads'
  BY <1>2, <1>3, <1>4 DEF WritingLeads
<1>6. ReadingLeads' /\ ContextsAgree'
  BY <1>2 DEF ReadingLeads, ContextsAgree, ReadingInv
<1>7. ItemsSuit'
  <2>1. Elements(agenda') \subseteq Elements(items) \cup Elements(agenda)
    BY <1>1, Continued
  <2>2. \A x \in Elements(agenda) : ItemSuits(writer, sctx, x)
    BY DEF ReadingInv, ItemsSuit, Worker, WorkerContext
  <2>3. \A x \in Elements(agenda') : ItemSuits(writer, sctx, x)
    BY <2>1, <2>2
  <2> QED  BY <1>2, <2>3 DEF ItemsSuit, Worker, WorkerContext, ItemSuits, TypeSuits
<1>8. AcceptedIsRead'
  <2>1. status = "writing"
    BY DEF ReadingInv, BodyInv, Typed, InOrder
  <2> QED  BY <1>2, <2>1 DEF AcceptedIsRead
<1> QED  BY <1>5, <1>6, <1>7, <1>8 DEF ReadingInv

(* A step that gives the message up for a reason that is allowed keeps it. *)
LEMMA StopKeeps ==
  ASSUME ReadingInv, BodyInv', UNCHANGED pair, NEW s, Stop(s),
         s \notin {"flags", "internal", "no such handler", "garbled", "received"}
  PROVE  ReadingInv'
<1>1. phase' = "idle" /\ agenda' = <<>> /\ status' = s
  BY DEF Stop
<1>2. Elements(agenda') = {}
  BY <1>1, AgendaOfOne
<1> QED  BY <1>1, <1>2 DEF ReadingInv, WritingLeads, ReadingLeads, ContextsAgree, ItemsSuit,
                           AcceptedIsRead

(* What a step of the reader finds                                         *)
LEMMA ReaderIsAt ==
  ASSUME OneHistory, ReadingInv, phase = "read", agenda # <<>>,
         NEW rest, rest = Shape(reader, sctx.version, Tail(agenda))
  PROVE  /\ IsSequence(rest)
         /\ Leads(writer, sctx, out,
                  Reading(Then(ItemSymbols(reader, sctx.version, Head(agenda)), rest), tell), End)
         /\ IsItem(reader, dctx, made, Head(agenda)) /\ ItemSuits(reader, dctx, Head(agenda))
         /\ IsBuild(writer) /\ IsBuild(reader) /\ pair \in Pairs
         /\ dctx \in Contexts /\ sctx.version \in Nat /\ dctx.version = sctx.version
         /\ dctx.flags = sctx.flags /\ dctx.endiannessDifference = sctx.endiannessDifference
         /\ SameStructs(writer, reader, sctx.version)
         /\ tell \in Nat /\ tell <= Len(out) /\ tell >= Len(Header) /\ Len(out) \in Nat
         /\ IsSequence(agenda) /\ \A x \in Elements(agenda) : IsItem(reader, dctx, made, x)
<1>1. /\ BodyInv /\ Typed /\ TypeOK /\ IsAgenda /\ IsMessage /\ ReadingLeads /\ ItemsSuit
      /\ ContextsAgree
  BY DEF ReadingInv, BodyInv, Typed
<1>2. IsBuild(writer) /\ IsBuild(reader) /\ pair \in Pairs
  BY <1>1, SidesAreBuilds DEF Typed
<1>3. IsSequence(agenda) /\ \A x \in Elements(agenda) : IsItem(reader, dctx, made, x)
  BY <1>1 DEF IsAgenda, Worker, WorkerContext
<1>4. Head(agenda) \in Elements(agenda)
  BY <1>3, TailElements
<1>5. Symbolic(reader, sctx.version, agenda)
  BY <1>2, <1>3, ItemsAreSymbolic
<1>6. /\ IsSequence(rest)
      /\ Shape(reader, sctx.version, agenda)
           = Then(ItemSymbols(reader, sctx.version, Head(agenda)), rest)
  BY <1>5, AgendaShape
<1>7. Leads(writer, sctx, out, Reading(Shape(reader, sctx.version, agenda), tell), End)
  BY <1>1 DEF ReadingLeads
<1>8. IsItem(reader, dctx, made, Head(agenda)) /\ ItemSuits(reader, dctx, Head(agenda))
  BY <1>1, <1>3, <1>4 DEF ItemsSuit, Worker, WorkerContext
<1>9. /\ dctx \in Contexts /\ sctx.version \in Nat /\ dctx.version = sctx.version
      /\ dctx.flags = sctx.flags /\ dctx.endiannessDifference = sctx.endiannessDifference
      /\ sctx.version <= writer.interface /\ dctx.version <= reader.interface
  BY <1>1 DEF TypeOK, Contexts, ContextsAgree
<1>10. SameStructs(writer, reader, sctx.version)
  <2>1. writer.interface \in Nat
    BY <1>2 DEF IsBuild
  <2>2. sctx.version \in 0..writer.interface /\ sctx.version <= reader.interface
    BY <1>9, <2>1
  <2> QED  BY <1>2, <2>2 DEF OneHistory, writer, reader
<1>11. tell \in Nat /\ tell <= Len(out) /\ tell >= Len(Header) /\ Len(out) \in Nat
  BY <1>1 DEF TypeOK, IsMessage, IsSequence
<1> QED  BY <1>2, <1>3, <1>6, <1>7, <1>8, <1>9, <1>10, <1>11

(* A step of the reader keeps it if what is left leads to the end.         *)
LEMMA ReaderLeadsOn ==
  ASSUME OneHistory, ReadingInv, BodyInv', phase = "read", agenda # <<>>,
         UNCHANGED <<pair, writerVars, dctx, phase, status>>,
         NEW items, IsSequence(items), agenda' = items \o Tail(agenda),
         NEW n,
         \A x \in Elements(items) : IsItem(reader, dctx, n, x) /\ ItemSuits(reader, dctx, x),
         NEW rest, rest = Shape(reader, sctx.version, Tail(agenda)),
         Leads(writer, sctx, out,
               Reading(Then(Shape(reader, sctx.version, items), rest), tell'), End)
  PROVE  ReadingInv'
<1>1. /\ IsBuild(reader) /\ IsSequence(agenda)
      /\ \A x \in Elements(agenda) : IsItem(reader, dctx, made, x)
  BY ReaderIsAt
<1>2. /\ phase' = "read" /\ sctx' = sctx /\ dctx' = dctx /\ out' = out /\ status' = status
      /\ pair' = pair /\ writer' = writer /\ reader' = reader
  BY DEF writer, reader, writerVars
<1>3. Shape(reader, sctx.version, agenda') = Then(Shape(reader, sctx.version, items), rest)
  <2>1. Symbolic(reader, sctx.version, agenda)
    BY <1>1, ItemsAreSymbolic
  <2>2. Symbolic(reader, sctx.version, items)
    BY <1>1, ItemsAreSymbolic
  <2> QED  BY <2>1, <2>2, AgendaShape
<1>4. End' = End
  BY <1>2 DEF End
<1>5. ReadingLeads'
  BY <1>2, <1>3, <1>4 DEF ReadingLeads
<1>6. WritingLeads' /\ ContextsAgree'
  BY <1>2 DEF WritingLeads, ContextsAgree, ReadingInv
<1>7. ItemsSuit'
  <2>1. Elements(agenda') \subseteq Elements(items) \cup Elements(agenda)
    BY <1>1, Continued
  <2>2. \A x \in Elements(agenda) : ItemSuits(reader, dctx, x)
    BY DEF ReadingInv, ItemsSuit, Worker, WorkerContext
  <2>3. \A x \in Elements(agenda') : ItemSuits(reader, dctx, x)
    BY <2>1, <2>2
  <2> QED  BY <1>2, <2>3 DEF ItemsSuit, Worker, WorkerContext, ItemSuits, TypeSuits
<1>8. AcceptedIsRead'
  <2>1. status = "reading"
    BY DEF ReadingInv, BodyInv, Typed, InOrder
  <2> QED  BY <1>2, <2>1 DEF AcceptedIsRead
<1> QED  BY <1>5, <1>6, <1>7, <1>8 DEF ReadingInv

-----------------------------------------------------------------------------
(* Nothing that is left to do is refused for its flags.                    *)

(* A struct that is accepted has parts that are.                           *)
LEMMA PartsSuit ==
  ASSUME FlagsOfParts, pair \in Pairs, NEW b, b = writer \/ b = reader, NEW flags,
         NEW T \in DOMAIN b.private, NEW v \in ToSet(b.private[T]),
         testDataFlagsCompatibility(b, T, flags),
         NEW m \in ToSet(b.layout[T][v].members), m.kind # "number"
  PROVE  testDataFlagsCompatibility(b, m.type, flags)
<1>1. b.forbidden[m.type] \subseteq b.forbidden[T] /\ b.mandatory[m.type] \subseteq b.mandatory[T]
  <2>1. PICK side \in {1, 2} : b = Builds[pair[side]]
    BY DEF writer, reader
  <2> QED  BY <2>1 DEF FlagsOfParts
<1> QED  BY <1>1 DEF testDataFlagsCompatibility

(* So its members suit.                                                    *)
LEMMA MembersSuit ==
  ASSUME FlagsOfParts, pair \in Pairs, NEW b, b = writer \/ b = reader, IsBuild(b), NEW ctx,
         NEW item, item.do = "struct", ItemSuits(b, ctx, item),
         item.type \in DOMAIN b.private, item.version \in ToSet(b.private[item.type]),
         \A m \in ToSet(b.layout[item.type][item.version].members) :
           m.kind # "number" => m.type \in DOMAIN writer.private
  PROVE  \A x \in Elements(MembersOf(b, item)) : ItemSuits(b, ctx, x)
<1> DEFINE members == b.layout[item.type][item.version].members
           part(m) == [do |-> m.kind, member |-> m, at |-> item.at, from |-> item.from,
                       kept |-> item.kept]
<1>1. members \in Seq(Members)
  BY LayoutIs
<1>2. testDataFlagsCompatibility(b, item.type, ctx.flags)
  BY DEF ItemSuits, TypeSuits
<1>3. ASSUME NEW m \in ToSet(members), m \in Members
      PROVE  ItemSuits(b, ctx, part(m))
  <2>1. m.kind # "number" => TypeSuits(b, ctx, m.type)
    BY <1>2, PartsSuit DEF TypeSuits
  <2>2. part(m).do = m.kind /\ part(m).member = m /\ m.kind \in MemberKinds
    BY <1>3 DEF Members
  <2> HIDE DEF part
  <2> QED  BY <2>1, <2>2 DEF ItemSuits, MemberKinds
<1>4. MembersOf(b, item) = [i \in DOMAIN members |-> part(members[i])]
  BY DEF MembersOf, Layout
<1> HIDE DEF members
<1>5. DOMAIN members = 1..Len(members) /\ Len(members) \in Nat
      /\ \A i \in 1..Len(members) : members[i] \in ToSet(members) /\ members[i] \in Members
  BY <1>1 DEF ToSet
<1> HIDE DEF part
<1>6. DOMAIN MembersOf(b, item) = 1..Len(members)
      /\ \A i \in 1..Len(members) : MembersOf(b, item)[i] = part(members[i])
  BY <1>4, <1>5
<1>7. Len(MembersOf(b, item)) = Len(members)
  BY <1>5, <1>6
<1> QED  BY <1>3, <1>5, <1>6, <1>7 DEF Elements

(* The struct that a member is suits, and so do the elements of an array.  *)
LEMMA SubStructSuits ==
  ASSUME NEW b, NEW ctx, NEW item, item.do \in {"member", "array"}, ItemSuits(b, ctx, item), NEW j
  PROVE  ItemSuits(b, ctx, SubStruct(b, item, j))
<1>1. TypeSuits(b, ctx, item.member.type)
  BY DEF ItemSuits, MemberKinds
<1>2. SubStruct(b, item, j).do = "struct" /\ SubStruct(b, item, j).type = item.member.type
  BY DEF SubStruct, Whole, Struct
<1> QED  BY <1>1, <1>2 DEF ItemSuits, MemberKinds

(* So does each element of an array.                                       *)
LEMMA ElementsSuit ==
  ASSUME NEW b, IsBuild(b), NEW ctx, NEW n, NEW item, IsItem(b, ctx, n, item), item.do = "array",
         ItemSuits(b, ctx, item)
  PROVE  \A x \in Elements(FlattenSeq(OneByOne(b, item))) : ItemSuits(b, ctx, x)
<1> DEFINE S == {x \in UNION {Elements(OneByOne(b, item)[j]) : j \in 1..item.member.n} :
                   ItemSuits(b, ctx, x)}
<1>1. item.member.n \in Nat
  BY ArrayIs
<1>2. ASSUME NEW j \in 1..item.member.n
      PROVE  IsSequence(OneByOne(b, item)[j]) /\ Elements(OneByOne(b, item)[j]) \subseteq S
  <2>1. PICK e, sub : e = [do |-> "element", at |-> SubStruct(b, item, j).at]
                      /\ sub = SubStruct(b, item, j)
    OBVIOUS
  <2>2. OneByOne(b, item)[j] = <<e, sub>>
    BY <2>1 DEF OneByOne
  <2>3. ItemSuits(b, ctx, e)
    BY <2>1 DEF ItemSuits, MemberKinds
  <2>4. ItemSuits(b, ctx, sub)
    BY <2>1, SubStructSuits
  <2>5. IsSequence(<<e, sub>>) /\ Elements(<<e, sub>>) = {e, sub}
    BY DEF IsSequence, Elements
  <2> QED  BY <2>2, <2>3, <2>4, <2>5
<1>3. IsSequence(OneByOne(b, item)) /\ Len(OneByOne(b, item)) = item.member.n
  BY <1>1 DEF OneByOne, IsSequence
<1> HIDE DEF S
<1>4. Elements(FlattenSeq(OneByOne(b, item))) \subseteq S
  BY <1>2, <1>3, Flattened
<1> QED  BY <1>4 DEF S

-----------------------------------------------------------------------------
(* The steps of the writer.                                                *)

(* One sequence is two, one after the other.                               *)
Joins(u, s, t) == u = s \o t

(* Tokens that are written follow those that were.                         *)
LEMMA Appended ==
  ASSUME NEW s, NEW t, IsSequence(s), IsSequence(t), NEW u, Joins(u, s, t)
  PROVE  /\ IsSequence(u) /\ Len(u) = Len(s) + Len(t) /\ Len(s) \in Nat /\ Len(t) \in Nat
         /\ \A j \in 1..Len(t) : u[Len(s) + j] = t[j]
<1>1. /\ IsSequence(u) /\ Len(u) = Len(s) + Len(t)
      /\ \A i \in 1..Len(u) : u[i] = IF i <= Len(s) THEN s[i] ELSE t[i - Len(s)]
  BY Concatenated DEF Joins
<1>2. Len(s) \in Nat /\ Len(t) \in Nat
  BY DEF IsSequence
<1>3. ASSUME NEW j \in 1..Len(t)
      PROVE  u[Len(s) + j] = t[j]
  <2>1. PICK i \in 1..Len(u) : i = Len(s) + j
    BY <1>1, <1>2
  <2>2. ~(i <= Len(s)) /\ i - Len(s) = j
    BY <1>2, <2>1
  <2> QED  BY <1>1, <2>1, <2>2
<1> QED  BY <1>1, <1>2, <1>3

(* One token that is written                                               *)
LEMMA AppendedOne ==
  ASSUME NEW s, IsSequence(s), NEW token, NEW u, Joins(u, s, <<token>>)
  PROVE  IsSequence(u) /\ Len(u) = Len(s) + 1 /\ Len(s) \in Nat /\ u[Len(s) + 1] = token
<1>1. PICK t : t = <<token>>
  OBVIOUS
<1>2. IsSequence(t) /\ Len(t) \in Nat /\ t[1] = token
  BY <1>1, AgendaOfOne
<1>3. PICK n \in Nat : n = Len(t)
  BY <1>2
<1>4. n = 1
  BY <1>1, <1>3
<1>5. Joins(u, s, t)
  BY <1>1
<1>6. /\ IsSequence(u) /\ Len(u) = Len(s) + n /\ Len(s) \in Nat
      /\ \A j \in 1..n : u[Len(s) + j] = t[j]
  BY <1>2, <1>3, <1>5, Appended
<1> QED  BY <1>2, <1>4, <1>6

(* A step that writes nothing goes on with items that come to the same.    *)
LEMMA WriterSplits ==
  ASSUME ReadingInv, BodyInv', phase = "write", agenda # <<>>, UNCHANGED <<pair, sctx, out>>,
         NEW items, IsSequence(items), Continue(items),
         \A x \in Elements(items) :
           IsItem(writer, sctx, made, x) /\ ItemSuits(writer, sctx, x),
         Shape(writer, sctx.version, items) = ItemSymbols(writer, sctx.version, Head(agenda))
  PROVE  ReadingInv'
<1>1. PICK rest : rest = Shape(writer, sctx.version, Tail(agenda))
  OBVIOUS
<1>2. Leads(writer, sctx, out, Start,
            Reading(Then(ItemSymbols(writer, sctx.version, Head(agenda)), rest), Len(out)))
  BY <1>1, WriterIsAt
<1>3. Leads(writer, sctx, out', Start,
            Reading(Then(Shape(writer, sctx.version, items), rest), Len(out')))
  BY <1>2
<1>4. /\ UNCHANGED <<pair, sctx, phase, status>> /\ agenda' = items \o Tail(agenda)
  BY DEF Continue
<1> QED  BY <1>1, <1>3, <1>4, WriterLeadsOn

(* The item of one struct has one symbol.                                  *)
LEMMA StructShape ==
  ASSUME NEW b, NEW c, NEW item, item.do = "struct"
  PROVE  /\ ItemSymbols(b, c, item) = <<StructSymbol(b, c, item.type, item.version)>>
         /\ Shape(b, c, <<item>>) = ItemSymbols(b, c, item)
<1>1. ItemSymbols(b, c, item) = <<StructSymbol(b, c, item.type, item.version)>>
  BY DEF ItemSymbols, MemberKinds
<1>2. IsSequence(ItemSymbols(b, c, item))
  BY <1>1, AgendaOfOne
<1> QED  BY <1>1, <1>2, ShapeOfOne

(* toOldStruct                                                             *)
LEMMA ToOldStructKeepsReading ==
  ASSUME ReadingInv, ToOldStruct
  PROVE  ReadingInv'
<1> DEFINE item == Head(agenda)
           target == VersionInMessage(writer, item, sctx)
           chain == ToVersion(writer, item.type, item.version, target)
           older == Struct(item.type, Last(chain), <<"temporary">>, item.from,
                           item.kept \cap Handed(writer, item.type, chain))
<1>1. /\ phase = "write" /\ agenda # <<>> /\ item.do = "struct" /\ target # item.version
      /\ UNCHANGED <<pair, writerVars, readerVars>>
      /\ \/ target = Undefined /\ Stop("internal")
         \/ Continue(<<older>>)
         \/ Stop("no memory")
  BY DEF ToOldStruct, Doing, NoMemory
<1>2. BodyInv /\ BodyInv'
  BY ToOldStructKeepsBodyInv DEF ReadingInv
<1>3. /\ IsItem(writer, sctx, made, item) /\ sctx \in Contexts /\ IsBuild(writer)
      /\ ItemSuits(writer, sctx, item) /\ sctx.version <= writer.interface
  BY <1>1, WriterIsAt DEF ReadingInv, ContextsAgree
<1>4. /\ StructInMessage(writer, sctx, item.type, item.version) /\ IsPlace(item.from)
      /\ item.type \in DOMAIN writer.private
      /\ item.version \in ToSet(writer.private[item.type])
      /\ target \in ToSet(writer.private[item.type]) /\ sctx.notMatch /\ target < item.version
      /\ target \in Nat /\ target <= sctx.version /\ sctx.version \in Nat
  BY <1>1, <1>3, ItemIsStruct, MessageVersion
<1>5. CASE target = Undefined
  <2>1. writer.interface \in Nat /\ writer.interface < Undefined
    BY <1>3 DEF IsBuild
  <2> QED  BY <1>3, <1>4, <1>5, <2>1, UndefinedAssumption
<1>6. CASE Continue(<<older>>)
  <2>1. Last(chain) = target
    BY <1>3, <1>4, VersionsDown
  <2>2. StructInMessage(writer, sctx, item.type, Last(chain)) /\ IsPlace(<<"temporary">>)
    BY <1>4, <2>1, ObjectIsPlace DEF StructInMessage
  <2>3. /\ getBestCompatInterfaceVersion(writer, item.type, item.version, sctx.version) = target
        /\ getBestCompatInterfaceVersion(writer, item.type, target, sctx.version) = target
    BY <1>3, <1>4, SymbolVersion
  <2> HIDE DEF chain, target, item
  <2>4. IsItem(writer, sctx, made, older)
    BY <1>4, <2>2, StructIsItem
  <2>5. older.do = "struct" /\ older.type = item.type /\ older.version = target
    BY <2>1 DEF Struct
  <2> HIDE DEF older
  <2>6. ItemSuits(writer, sctx, older)
    BY <1>1, <1>3, <2>5 DEF ItemSuits, MemberKinds
  <2>7. Shape(writer, sctx.version, <<older>>) = ItemSymbols(writer, sctx.version, item)
    <3>1. Shape(writer, sctx.version, <<older>>)
            = <<StructSymbol(writer, sctx.version, item.type, target)>>
      BY <2>5, StructShape
    <3>2. ItemSymbols(writer, sctx.version, item)
            = <<StructSymbol(writer, sctx.version, item.type, item.version)>>
      BY <1>1, StructShape
    <3>3. StructSymbol(writer, sctx.version, item.type, target)
            = StructSymbol(writer, sctx.version, item.type, item.version)
      BY <2>3 DEF StructSymbol
    <3> QED  BY <3>1, <3>2, <3>3
  <2>8. UNCHANGED <<pair, sctx, out>>
    BY <1>1 DEF writerVars
  <2>9. Shape(writer, sctx.version, <<older>>) = ItemSymbols(writer, sctx.version, Head(agenda))
    BY <2>7 DEF item
  <2> QED  BY <1>1, <1>2, <1>6, <2>4, <2>6, <2>8, <2>9, AgendaOfOne, WriterSplits
<1>7. CASE Stop("no memory")
  BY <1>1, <1>2, <1>7, StopKeeps
<1> QED  BY <1>1, <1>5, <1>6, <1>7

(* No items come to no symbols.                                            *)
LEMMA ShapeOfNone ==
  ASSUME NEW b, NEW c
  PROVE  Shape(b, c, <<>>) = <<>>
<1>1. PICK x : x = [do |-> "element"]
  OBVIOUS
<1>2. ItemSymbols(b, c, x) = <<>>
  BY <1>1 DEF ItemSymbols, MemberKinds
<1> QED  BY <1>2, AgendaOfOne, ShapeOfOne

(* A step that is done with an item goes on with the rest.                 *)
LEMMA WriterIsDone ==
  ASSUME ReadingInv, BodyInv', phase = "write", agenda # <<>>, UNCHANGED <<pair, sctx>>,
         Continue(<<>>), NEW rest, rest = Shape(writer, sctx.version, Tail(agenda)),
         Leads(writer, sctx, out', Start, Reading(rest, Len(out')))
  PROVE  ReadingInv'
<1>1. IsSequence(rest)
  BY WriterIsAt
<1>2. Then(Shape(writer, sctx.version, <<>>), rest) = rest
  BY <1>1, ShapeOfNone, ThenIs
<1>3. /\ UNCHANGED <<pair, sctx, phase, status>> /\ agenda' = <<>> \o Tail(agenda)
  BY DEF Continue
<1>4. IsSequence(<<>>) /\ Elements(<<>>) = {}
  BY AgendaOfOne
<1> QED  BY <1>2, <1>3, <1>4, WriterLeadsOn

(* serialize of a struct, whose flags suit                                 *)
LEMMA SerializeStructKeepsReading ==
  ASSUME FlagsOfParts, ReadingInv, SerializeStruct
  PROVE  ReadingInv'
<1> DEFINE item == Head(agenda)
           T == item.type
           v == item.version
           c == sctx.version
<1>1. /\ phase = "write" /\ agenda # <<>> /\ item.do = "struct"
      /\ VersionInMessage(writer, item, sctx) = v
      /\ UNCHANGED <<pair, graph, sctx, pointersMap, readerVars>>
  BY DEF SerializeStruct, Doing
<1>2. BodyInv /\ BodyInv'
  BY SerializeStructKeepsBodyInv DEF ReadingInv
<1>3. PICK rest : rest = Shape(writer, c, Tail(agenda))
  OBVIOUS
<1>4. /\ IsItem(writer, sctx, made, item) /\ sctx \in Contexts /\ IsBuild(writer)
      /\ ItemSuits(writer, sctx, item) /\ pair \in Pairs /\ IsSequence(rest)
      /\ IsSequence(out) /\ Len(out) \in Nat
      /\ Leads(writer, sctx, out, Start,
               Reading(Then(ItemSymbols(writer, c, item), rest), Len(out)))
  BY <1>1, <1>3, WriterIsAt
<1>5. StructInMessage(writer, sctx, T, v) /\ T \in DOMAIN writer.private
      /\ v \in ToSet(writer.private[T])
  BY <1>1, <1>4, ItemIsStruct, MessageVersion
<1>6. getBestCompatInterfaceVersion(writer, T, v, c) = v
  BY <1>1, <1>4, <1>5, SymbolVersion
<1>7. ItemSymbols(writer, c, item) = <<VersionSymbol(T, v)>>
  BY <1>1, <1>6, StructShape DEF StructSymbol
<1>8. FlagsSuit(writer, item, sctx)
  BY <1>1, <1>4 DEF ItemSuits, TypeSuits, FlagsSuit
<1> DEFINE y == Reading(First(VersionSymbol(T, v), rest), Len(out))
<1>9. Leads(writer, sctx, out, Start, y)
  <2>1. Then(<<VersionSymbol(T, v)>>, rest) = First(VersionSymbol(T, v), rest)
    BY <1>4, ThenIs
  <2> QED  BY <1>4, <1>7, <2>1
<1>10. Facing(y, VersionSymbol(T, v), rest, Len(out))
  BY <1>4, ReadingFaces
<1>11. CASE InBytes(writer, sctx, T, v)
  <2>1. out' = out \o <<AsBytes(writer, item)>> /\ Continue(<<>>)
    BY <1>8, <1>11 DEF SerializeStruct, Write, InBytes, Layout
  <2>2. PICK token : token = AsBytes(writer, item)
    OBVIOUS
  <2>3. token[1] = "bytes" /\ DOMAIN token[2] = Names(writer, T, v)
    BY <2>2 DEF AsBytes
  <2>4. IsSequence(<<token>>) /\ Len(<<token>>) = 1 /\ <<token>>[1] = token
    BY AgendaOfOne
  <2>5. /\ IsSequence(out') /\ Len(out') = Len(out) + 1 /\ out'[Len(out) + 1] = token
    <3>1. Joins(out', out, <<token>>)
      BY <2>1, <2>2 DEF Joins
    <3> QED  BY <1>4, <3>1, AppendedOne
  <2>6. BytesAt(writer, out', T, v, Len(out) + 1)
    BY <1>4, <2>3, <2>5 DEF BytesAt
  <2> HIDE DEF y, T, v, c, item
  <2>7. Leads(writer, sctx, out', Start, y)
    BY <1>4, <1>9, <2>1, <2>2, <2>4, LeadsKept
  <2>8. Meets(writer, sctx, out', y)
    BY <1>4, <1>10, <1>11, <2>6, BytesMeet
  <2>9. After(writer, sctx, out', y) = Reading(rest, Len(out'))
    BY <1>4, <1>10, <1>11, <2>5, AfterBytes
  <2>10. y.todo # <<>>
    BY <1>10 DEF Facing
  <2>11. Leads(writer, sctx, out', Start, After(writer, sctx, out', y))
    BY <2>7, <2>8, <2>10, LeadsOn
  <2>12. Leads(writer, sctx, out', Start, Reading(rest, Len(out')))
    BY <2>9, <2>11
  <2>13. rest = Shape(writer, sctx.version, Tail(agenda))
    BY <1>3 DEF c
  <2> QED  BY <1>1, <1>2, <2>1, <2>12, <2>13, WriterIsDone
<1>12. CASE ~InBytes(writer, sctx, T, v)
  <2>1. Continue(MembersOf(writer, item)) /\ out' = out
    BY <1>8, <1>12 DEF SerializeStruct, InBytes, Layout
  <2>2. /\ IsSequence(MembersOf(writer, item))
        /\ \A x \in Elements(MembersOf(writer, item)) : IsItem(writer, sctx, made, x)
    BY <1>1, <1>4, MembersAreItems
  <2>3. ASSUME NEW m \in ToSet(writer.layout[T][v].members), m.kind # "number"
        PROVE  m.type \in DOMAIN writer.private
    BY <1>4, <1>5, <2>3, LayoutIs DEF IsPart
  <2>4. \A x \in Elements(MembersOf(writer, item)) : ItemSuits(writer, sctx, x)
    BY <1>1, <1>4, <1>5, <2>3, MembersSuit
  <2>5. Shape(writer, c, MembersOf(writer, item)) = StructSymbols(writer, c, T, v)
    BY <1>4, <1>5, ShapeOfMembers
  <2> HIDE DEF y, T, v, c, item
  <2>6. Meets(writer, sctx, out, y)
    BY <1>10, <1>12, MembersMeet
  <2>7. After(writer, sctx, out, y)
          = Reading(StructSymbols(writer, sctx.version, T, v) \o rest, Len(out))
    BY <1>4, <1>10, <1>12, AfterMembers
  <2>8. y.todo # <<>>
    BY <1>10 DEF Facing
  <2>9. Leads(writer, sctx, out, Start, After(writer, sctx, out, y))
    BY <1>9, <2>6, <2>8, LeadsOn
  <2>10. Leads(writer, sctx, out', Start,
               Reading(Then(Shape(writer, sctx.version, MembersOf(writer, item)), rest), Len(out')))
    BY <2>1, <2>5, <2>7, <2>9 DEF Then, c
  <2>11. UNCHANGED <<pair, sctx, phase, status>>
         /\ agenda' = MembersOf(writer, item) \o Tail(agenda)
    BY <1>1, <2>1 DEF Continue
  <2>12. rest = Shape(writer, sctx.version, Tail(agenda))
    BY <1>3 DEF c
  <2> QED  BY <1>1, <1>2, <2>2, <2>4, <2>10, <2>11, <2>12, WriterLeadsOn
<1> QED  BY <1>11, <1>12

(* What a member comes to, and the struct that it is                       *)
LEMMA MemberShape ==
  ASSUME NEW b, NEW c, NEW item, item.do = "member", item.member.kind = "member", NEW j
  PROVE  Shape(b, c, <<SubStruct(b, item, j)>>) = ItemSymbols(b, c, item)
<1> DEFINE m == item.member
<1>1. PICK sub : sub = SubStruct(b, item, j)
  OBVIOUS
<1>2. sub.do = "struct" /\ sub.type = m.type /\ sub.version = m.version
  BY <1>1 DEF SubStruct, Whole, Struct
<1>3. Shape(b, c, <<sub>>) = <<StructSymbol(b, c, m.type, m.version)>>
  BY <1>2, StructShape
<1>4. ItemSymbols(b, c, item) = <<StructSymbol(b, c, m.type, m.version)>>
  BY DEF ItemSymbols, MemberSymbols, MemberKinds
<1> QED  BY <1>1, <1>3, <1>4

(* serialize of a member                                                   *)
LEMMA SerializeMemberKeepsReading ==
  ASSUME ReadingInv, SerializeMember
  PROVE  ReadingInv'
<1> DEFINE item == Head(agenda)
<1>1. /\ phase = "write" /\ agenda # <<>> /\ item.do = "member"
      /\ UNCHANGED <<pair, writerVars, readerVars>>
      /\ Continue(<<SubStruct(writer, item, 1)>>)
  BY DEF SerializeMember, Doing
<1>2. BodyInv /\ BodyInv'
  BY SerializeMemberKeepsBodyInv DEF ReadingInv
<1>3. IsItem(writer, sctx, made, item) /\ ItemSuits(writer, sctx, item)
  BY <1>1, WriterIsAt
<1>4. item.member.kind = "member"
  BY <1>1, <1>3, ItemIsMember DEF MemberKinds
<1> HIDE DEF item
<1>5. PICK sub : sub = SubStruct(writer, item, 1)
  OBVIOUS
<1>6. IsItem(writer, sctx, made, sub) /\ ItemSuits(writer, sctx, sub)
  BY <1>1, <1>3, <1>5, SubStructIsItem, SubStructSuits
<1>7. Shape(writer, sctx.version, <<sub>>) = ItemSymbols(writer, sctx.version, Head(agenda))
  BY <1>1, <1>4, <1>5, MemberShape DEF item
<1>8. UNCHANGED <<pair, sctx, out>> /\ Continue(<<sub>>)
  BY <1>1, <1>5 DEF writerVars
<1> QED  BY <1>1, <1>2, <1>6, <1>7, <1>8, AgendaOfOne, WriterSplits

(* serialize of a number                                                   *)
LEMMA SerializeNumberKeepsReading ==
  ASSUME ReadingInv, SerializeNumber
  PROVE  ReadingInv'
<1> DEFINE item == Head(agenda)
<1>1. PICK token : token = <<"number", Value(item, item.member.name)>>
  OBVIOUS
<1>2. /\ phase = "write" /\ agenda # <<>> /\ item.do = "number"
      /\ UNCHANGED <<pair, sctx>> /\ out' = out \o <<token>> /\ Continue(<<>>)
  BY <1>1 DEF SerializeNumber, Doing, Write
<1>3. BodyInv /\ BodyInv'
  BY SerializeNumberKeepsBodyInv DEF ReadingInv
<1>4. PICK rest : rest = Shape(writer, sctx.version, Tail(agenda))
  OBVIOUS
<1>5. /\ IsItem(writer, sctx, made, item) /\ IsSequence(rest) /\ IsSequence(out)
      /\ Len(out) \in Nat
      /\ Leads(writer, sctx, out, Start,
               Reading(Then(ItemSymbols(writer, sctx.version, item), rest), Len(out)))
  BY <1>2, <1>4, WriterIsAt
<1>6. item.member.kind = "number"
  BY <1>2, <1>5, ItemIsMember DEF MemberKinds
<1>7. ItemSymbols(writer, sctx.version, item) = <<NumberSymbol>>
  BY <1>2, <1>6 DEF ItemSymbols, MemberSymbols, MemberKinds
<1> DEFINE y == Reading(First(NumberSymbol, rest), Len(out))
<1>8. Leads(writer, sctx, out, Start, y)
  <2>1. Then(<<NumberSymbol>>, rest) = First(NumberSymbol, rest)
    BY <1>5, ThenIs
  <2> QED  BY <1>5, <1>7, <2>1
<1>9. Facing(y, NumberSymbol, rest, Len(out))
  BY <1>5, ReadingFaces
<1>10. IsSequence(out') /\ Len(out') = Len(out) + 1 /\ out'[Len(out) + 1] = token
  <2>1. Joins(out', out, <<token>>)
    BY <1>2 DEF Joins
  <2> QED  BY <1>5, <2>1, AppendedOne
<1>11. token[1] = "number"
  BY <1>1
<1> HIDE DEF y, item
<1>12. Leads(writer, sctx, out', Start, y)
  BY <1>2, <1>5, <1>8, AgendaOfOne, LeadsKept
<1>13. y.todo # <<>> /\ Meets(writer, sctx, out', y)
       /\ After(writer, sctx, out', y) = Reading(rest, Len(out'))
  <2>1. Len(out) \in 0..(Len(out') - 1)
    BY <1>5, <1>10
  <2>2. y.todo # <<>>
    BY <1>9 DEF Facing
  <2>3. Meets(writer, sctx, out', y)
    BY <1>9, <1>10, <1>11, <2>1, NumberMeets
  <2>4. After(writer, sctx, out', y) = Reading(rest, Len(out'))
    BY <1>5, <1>9, <1>10, AfterNumber
  <2> QED  BY <2>2, <2>3, <2>4
<1>14. Leads(writer, sctx, out', Start, After(writer, sctx, out', y))
  BY <1>12, <1>13, LeadsOn
<1>15. Leads(writer, sctx, out', Start, Reading(rest, Len(out')))
  BY <1>13, <1>14
<1> QED  BY <1>2, <1>3, <1>4, <1>15, WriterIsDone

(* serialize of an element of an array, which only gets its place          *)
LEMMA SerializeElementKeepsReading ==
  ASSUME ReadingInv, SerializeElement
  PROVE  ReadingInv'
<1> DEFINE item == Head(agenda)
<1>1. /\ phase = "write" /\ agenda # <<>> /\ item.do = "element"
      /\ UNCHANGED <<pair, sctx, out>> /\ Continue(<<>>)
  BY DEF SerializeElement, Doing
<1>2. BodyInv /\ BodyInv'
  BY SerializeElementKeepsBodyInv DEF ReadingInv
<1>3. ItemSymbols(writer, sctx.version, item) = <<>>
  BY <1>1 DEF ItemSymbols, MemberKinds
<1>4. Shape(writer, sctx.version, <<>>) = ItemSymbols(writer, sctx.version, Head(agenda))
  BY <1>3, ShapeOfNone
<1>5. IsSequence(<<>>) /\ Elements(<<>>) = {}
  BY AgendaOfOne
<1> QED  BY <1>1, <1>2, <1>4, <1>5, WriterSplits

(* The message is written.                                                 *)
LEMMA EndOfWritingKeepsReading ==
  ASSUME ReadingInv, EndOfWriting
  PROVE  ReadingInv'
<1>1. /\ phase = "write" /\ agenda = <<>> /\ phase' = "written" /\ status' = "written"
      /\ UNCHANGED <<pair, agenda, writerVars, readerVars>>
  BY DEF EndOfWriting
<1>2. BodyInv /\ BodyInv'
  BY EndOfWritingKeepsBodyInv DEF ReadingInv
<1>3. writer' = writer /\ reader' = reader /\ sctx' = sctx /\ out' = out /\ agenda' = agenda
      /\ dctx' = dctx /\ made' = made
  BY <1>1 DEF writer, reader, writerVars, readerVars
<1>4. Start' = Start
  BY <1>3 DEF Start
<1>5. WritingLeads' /\ ReadingLeads' /\ ContextsAgree'
  BY <1>1, <1>3, <1>4 DEF ReadingInv, WritingLeads, ReadingLeads, ContextsAgree
<1>6. ItemsSuit'
  BY <1>1, <1>3, AgendaOfOne DEF ItemsSuit
<1>7. AcceptedIsRead'
  BY <1>1 DEF AcceptedIsRead
<1> QED  BY <1>2, <1>5, <1>6, <1>7 DEF ReadingInv

(* One symbol, several times                                               *)
Times(s, n) == [j \in 1..n |-> s]

(* So an array comes to copies of the struct that its elements are.        *)
LEMMA ArrayShape ==
  ASSUME NEW b, IsBuild(b), NEW c, NEW ctx, NEW n, NEW item, IsItem(b, ctx, n, item),
         item.do = "array", NEW rest, IsSequence(rest)
  PROVE  Then(ItemSymbols(b, c, item), rest)
           = Copies(StructSymbol(b, c, item.member.type, item.member.version), item.member.n, rest)
<1>1. PICK s : s = StructSymbol(b, c, item.member.type, item.member.version)
  OBVIOUS
<1>2. PICK k : k = item.member.n
  OBVIOUS
<1>3. ItemSymbols(b, c, item)
        = [j \in 1..item.member.n |->
             StructSymbol(b, c, item.member.type, item.member.version)]
  BY ShapeOfElements
<1>4. ItemSymbols(b, c, item) = Times(s, k)
  <2>1. [j \in 1..item.member.n |->
             StructSymbol(b, c, item.member.type, item.member.version)] = [j \in 1..k |-> s]
    BY <1>1, <1>2
  <2> QED  BY <1>3, <2>1 DEF Times
<1>5. Then(Times(s, k), rest) = Copies(s, k, rest)
  BY DEF Times, Then, Copies
<1> QED  BY <1>1, <1>2, <1>4, <1>5

(* serialize of an array                                                   *)
LEMMA SerializeArrayKeepsReading ==
  ASSUME ReadingInv, SerializeArray
  PROVE  ReadingInv'
<1> DEFINE item == Head(agenda)
           m == item.member
           T == m.type
           v == m.version
           n == m.n
           c == sctx.version
           bytes == [j \in 1..n |-> AsBytes(writer, SubStruct(writer, item, j))]
<1>1. /\ phase = "write" /\ agenda # <<>> /\ item.do = "array"
      /\ UNCHANGED <<pair, graph, sctx, pointersMap, readerVars>>
  BY DEF SerializeArray, Doing
<1>2. BodyInv /\ BodyInv'
  BY SerializeArrayKeepsBodyInv DEF ReadingInv
<1>3. PICK rest : rest = Shape(writer, c, Tail(agenda))
  OBVIOUS
<1>4. /\ IsItem(writer, sctx, made, item) /\ sctx \in Contexts /\ IsBuild(writer)
      /\ ItemSuits(writer, sctx, item) /\ IsSequence(rest)
      /\ IsSequence(out) /\ Len(out) \in Nat
      /\ Leads(writer, sctx, out, Start,
               Reading(Then(ItemSymbols(writer, c, item), rest), Len(out)))
  BY <1>1, <1>3, WriterIsAt
<1>5. n \in Nat /\ m.kind = "array"
  BY <1>1, <1>4, ArrayIs
<1>6. T \in DOMAIN writer.private /\ v \in ToSet(writer.private[T])
  <2>1. MemberInMessage(writer, sctx, m)
    BY <1>1, <1>4, ItemIsMember DEF MemberKinds
  <2> QED  BY <1>5, <2>1 DEF MemberInMessage, StructInMessage, InMessage
<1>7. Then(ItemSymbols(writer, c, item), rest) = Copies(StructSymbol(writer, c, T, v), n, rest)
  BY <1>1, <1>4, ArrayShape
<1>8. CASE InBytes(writer, sctx, T, v)
  <2>1. out' = out \o bytes /\ Continue(<<>>)
    BY <1>8 DEF SerializeArray, Write, InBytes
  <2>2. StructSymbol(writer, c, T, v) = VersionSymbol(T, v)
    BY <1>4, <1>6, <1>8, AssignedIsBest DEF InBytes, StructSymbol
  <2>3. Leads(writer, sctx, out, Start, Reading(Copies(VersionSymbol(T, v), n, rest), Len(out)))
    <3> HIDE DEF T, v, n, c, item
    <3> QED  BY <1>4, <1>7, <2>2
  <2>4. ASSUME NEW j \in 1..n
        PROVE  bytes[j][1] = "bytes" /\ DOMAIN bytes[j][2] = Names(writer, T, v)
    <3>1. PICK sub : sub = SubStruct(writer, item, j)
      OBVIOUS
    <3>2. sub.type = T /\ sub.version = v
      BY <3>1 DEF SubStruct, Whole, Struct
    <3>3. PICK token : token = AsBytes(writer, sub)
      OBVIOUS
    <3>4. token[1] = "bytes" /\ DOMAIN token[2] = Names(writer, T, v)
      BY <3>2, <3>3 DEF AsBytes
    <3>5. bytes[j] = token
      BY <3>1, <3>3
    <3> QED  BY <3>4, <3>5
  <2>5. IsSequence(bytes) /\ Len(bytes) = n
    BY <1>5 DEF IsSequence
  <2> HIDE DEF bytes, T, v, n, c, m, item
  <2>6. /\ IsSequence(out') /\ Len(out') = Len(out) + n
        /\ \A j \in 1..n : out'[Len(out) + j] = bytes[j]
    <3>1. Joins(out', out, bytes)
      BY <2>1 DEF Joins
    <3> QED  BY <1>4, <2>5, <3>1, Appended
  <2>7. ASSUME NEW j \in 1..n
        PROVE  BytesAt(writer, out', T, v, Len(out) + j)
    <3>1. out'[Len(out) + j] = bytes[j] /\ Len(out) + j \in 1..Len(out')
      BY <1>4, <1>5, <2>6
    <3> QED  BY <2>4, <3>1 DEF BytesAt
  <2>8. Leads(writer, sctx, out', Start,
              Reading(Copies(VersionSymbol(T, v), n, rest), Len(out)))
    BY <1>4, <2>1, <2>3, <2>5, LeadsKept
  <2>9. Leads(writer, sctx, out', Start, Reading(rest, Len(out) + n))
    BY <1>4, <1>5, <1>8, <2>7, <2>8, LeadsOverArray
  <2>10. Leads(writer, sctx, out', Start, Reading(rest, Len(out')))
    BY <2>6, <2>9
  <2>11. rest = Shape(writer, sctx.version, Tail(agenda))
    BY <1>3 DEF c
  <2> QED  BY <1>1, <1>2, <2>1, <2>10, <2>11, WriterIsDone
<1>9. CASE ~InBytes(writer, sctx, T, v)
  <2> DEFINE items == FlattenSeq(OneByOne(writer, item))
             elements == [j \in 1..n |-> SubStruct(writer, item, j)]
  <2>1. /\ out' = out
        /\ Continue(FlattenSeq([j \in 1..n |->
             <<[do |-> "element", at |-> elements[j].at], elements[j]>>]))
    BY <1>9 DEF SerializeArray, InBytes
  <2>2. [j \in 1..n |-> <<[do |-> "element", at |-> elements[j].at], elements[j]>>]
        = OneByOne(writer, item)
    BY DEF OneByOne
  <2>3. Continue(items)
    BY <2>1, <2>2
  <2>4. /\ IsSequence(items)
        /\ \A x \in Elements(items) : IsItem(writer, sctx, made, x)
    BY <1>1, <1>4, ElementsAreItems
  <2>5. \A x \in Elements(items) : ItemSuits(writer, sctx, x)
    BY <1>1, <1>4, ElementsSuit
  <2>6. Shape(writer, sctx.version, items) = ItemSymbols(writer, sctx.version, Head(agenda))
    BY <1>1, <1>4, ShapeOfElements
  <2> HIDE DEF items, item
  <2> QED  BY <1>1, <1>2, <2>1, <2>3, <2>4, <2>5, <2>6, WriterSplits
<1> QED  BY <1>8, <1>9

(* A prefix of a pointer is met, and 1 has the object follow.              *)
LEMMA PrefixWritten ==
  ASSUME ReadingInv, BodyInv', phase = "write", agenda # <<>>, UNCHANGED <<pair, sctx>>,
         Head(agenda).do = "pointer", "allowUnmanagedPointers" \in sctx.flags,
         NEW token, token[1] = Prefix(sctx), token[2] \in 0..Len(out), Write(<<token>>),
         \/ token[2] # 1 /\ Continue(<<>>)
         \/ /\ token[2] = 1 /\ Pointee(Head(agenda)) # Null
            /\ Continue(<<Latest(writer, Head(agenda).member.type, Pointee(Head(agenda)))>>)
  PROVE  ReadingInv'
<1> DEFINE item == Head(agenda)
           p == Pointee(item)
           k == token[2]
           T == item.member.type
           c == sctx.version
           at == Len(out)
<1>1. PICK rest : rest = Shape(writer, c, Tail(agenda))
  OBVIOUS
<1>2. /\ IsItem(writer, sctx, made, item) /\ IsBuild(writer)
      /\ ItemSuits(writer, sctx, item) /\ IsSequence(rest)
      /\ IsSequence(out) /\ at \in Nat /\ at >= Len(Header)
      /\ Leads(writer, sctx, out, Start, Reading(Then(ItemSymbols(writer, c, item), rest), at))
  BY <1>1, WriterIsAt
<1>3. item.member.kind = "pointer" /\ InMessage(writer, sctx, T)
  BY <1>2, ItemIsMember DEF MemberKinds, MemberInMessage
<1>4. ItemSymbols(writer, c, item) = <<PointerSymbol(T)>>
  BY <1>3 DEF ItemSymbols, MemberSymbols, MemberKinds
<1> DEFINE y == Reading(First(PointerSymbol(T), rest), at)
<1>5. Leads(writer, sctx, out, Start, y)
  <2>1. Then(<<PointerSymbol(T)>>, rest) = First(PointerSymbol(T), rest)
    BY <1>2, ThenIs
  <2> QED  BY <1>2, <1>4, <2>1
<1>6. Facing(y, PointerSymbol(T), rest, at)
  BY <1>2, ReadingFaces
<1>7. IsSequence(out') /\ Len(out') = at + 1 /\ out'[at + 1] = token
  <2>1. Joins(out', out, <<token>>)
    BY DEF Joins, Write
  <2> QED  BY <1>2, <2>1, AppendedOne
<1>8. TypeSuits(writer, sctx, T)
  BY <1>2 DEF ItemSuits, MemberKinds
<1> HIDE DEF y
<1>9. Leads(writer, sctx, out', Start, y)
  <2>1. out' = out \o <<token>>
    BY DEF Write
  <2> QED  BY <1>2, <1>5, <2>1, AgendaOfOne, LeadsKept
<1>10. Meets(writer, sctx, out', y) /\ y.todo # <<>>
  <2>1. at \in 0..(Len(out') - 1)
    BY <1>2, <1>7
  <2>2. y.todo # <<>>
    BY <1>6 DEF Facing
  <2> QED  BY <1>6, <1>7, <2>1, <2>2, PointerMeets
<1>11. Leads(writer, sctx, out', Start, After(writer, sctx, out', y))
  BY <1>9, <1>10, LeadsOn
<1>12. CASE k = 1
  <2>1. PICK object : object = Latest(writer, T, p)
    OBVIOUS
  <2>2. IsPlace(p)
    BY <1>12, PointeeIs DEF ReadingInv
  <2>3. IsItem(writer, sctx, made, object)
    BY <1>2, <1>3, <2>1, <2>2, LatestIsItem
  <2>4. /\ object.do = "struct" /\ object.type = T
        /\ object.version = getLatestPrivateVersion(writer, T)
    BY <2>1 DEF Latest, Whole, Struct
  <2>5. ItemSuits(writer, sctx, object)
    BY <1>8, <2>4 DEF ItemSuits, MemberKinds
  <2>6. Shape(writer, c, <<object>>) = <<LatestSymbol(writer, c, T)>>
    BY <2>4, StructShape DEF LatestSymbol
  <2>7. After(writer, sctx, out', y) = Reading(First(LatestSymbol(writer, c, T), rest), at + 1)
    BY <1>2, <1>6, <1>7, <1>12, AfterNew
  <2>8. Leads(writer, sctx, out', Start,
              Reading(Then(Shape(writer, c, <<object>>), rest), Len(out')))
    BY <1>7, <1>11, <2>6, <2>7 DEF Then, First
  <2>9. UNCHANGED <<pair, sctx, phase, status>> /\ agenda' = <<object>> \o Tail(agenda)
    BY <1>12, <2>1 DEF Continue
  <2> HIDE DEF T, p, k, item
  <2> QED  BY <1>1, <2>3, <2>5, <2>8, <2>9, AgendaOfOne, WriterLeadsOn
<1>13. CASE k # 1
  <2>1. After(writer, sctx, out', y) = Reading(rest, at + 1)
    BY <1>2, <1>6, <1>7, <1>13, AfterKnown
  <2>2. Leads(writer, sctx, out', Start, Reading(rest, Len(out')))
    BY <1>7, <1>11, <2>1
  <2>3. Continue(<<>>)
    BY <1>13
  <2> QED  BY <1>1, <2>2, <2>3, WriterIsDone
<1> QED  BY <1>12, <1>13

(* serialize of a pointer, unless the context does not allow for any       *)
LEMMA SerializePointerKeepsReading ==
  ASSUME ReadingInv, SerializePointer
  PROVE  ReadingInv'
<1> DEFINE item == Head(agenda)
           p == Pointee(item)
           added == addPointerToMap(p)
           object == <<Latest(writer, item.member.type, p)>>
<1>1. /\ phase = "write" /\ agenda # <<>> /\ item.do = "pointer"
      /\ UNCHANGED <<pair, graph, sctx, readerVars>>
      /\ \/ Stop("not supported")
         \/ /\ "allowUnmanagedPointers" \in sctx.flags
            /\ "checkRecursivePointers" \in sctx.flags
            /\ Write(<<<<"size", added.prefix>>>>)
            /\ Continue(IF added.new THEN object ELSE <<>>)
         \/ /\ "allowUnmanagedPointers" \in sctx.flags
            /\ "checkRecursivePointers" \notin sctx.flags
            /\ Write(<<<<"flag", IF p = Null THEN 0 ELSE 1>>>>)
            /\ Continue(IF p = Null THEN <<>> ELSE object)
  BY DEF SerializePointer, Doing
<1>2. BodyInv /\ BodyInv'
  BY SerializePointerKeepsBodyInv DEF ReadingInv
<1>3. /\ Len(out) \in Nat /\ Len(out) >= 2
      /\ \A x \in DOMAIN pointersMap : pointersMap[x] \in 2..Len(out)
  <2>1. Len(Header) = 2
    BY DEF Header
  <2> QED  BY <1>1, <1>2, <2>1, WritersItem
<1>4. CASE Stop("not supported")
  BY <1>1, <1>2, <1>4, StopKeeps
<1>5. CASE /\ "allowUnmanagedPointers" \in sctx.flags
           /\ "checkRecursivePointers" \in sctx.flags
           /\ Write(<<<<"size", added.prefix>>>>)
           /\ Continue(IF added.new THEN object ELSE <<>>)
  <2>1. /\ added.prefix \in 0..Len(out) /\ (added.new <=> added.prefix = 1)
        /\ added.prefix = 1 => p # Null
    BY <1>3 DEF addPointerToMap
  <2>2. PICK k : k = added.prefix
    OBVIOUS
  <2>3. PICK token : token = <<"size", k>>
    OBVIOUS
  <2>4. token[1] = Prefix(sctx) /\ token[2] = k
    BY <1>5, <2>3 DEF Prefix
  <2> HIDE DEF added
  <2>5. /\ Write(<<token>>) /\ token[2] \in 0..Len(out)
        /\ \/ token[2] # 1 /\ Continue(<<>>)
           \/ /\ token[2] = 1 /\ p # Null
              /\ Continue(<<Latest(writer, item.member.type, p)>>)
    BY <1>5, <2>1, <2>2, <2>3, <2>4
  <2> QED  BY <1>1, <1>2, <1>5, <2>4, <2>5, PrefixWritten
<1>6. CASE /\ "allowUnmanagedPointers" \in sctx.flags
           /\ "checkRecursivePointers" \notin sctx.flags
           /\ Write(<<<<"flag", IF p = Null THEN 0 ELSE 1>>>>)
           /\ Continue(IF p = Null THEN <<>> ELSE object)
  <2>1. PICK k : k = IF p = Null THEN 0 ELSE 1
    OBVIOUS
  <2>2. PICK token : token = <<"flag", k>>
    OBVIOUS
  <2>3. token[1] = Prefix(sctx) /\ token[2] = k
    BY <1>6, <2>2 DEF Prefix
  <2>4. /\ Write(<<token>>) /\ token[2] \in 0..Len(out)
        /\ \/ token[2] # 1 /\ Continue(<<>>)
           \/ /\ token[2] = 1 /\ p # Null
              /\ Continue(<<Latest(writer, item.member.type, p)>>)
    BY <1>3, <1>6, <2>1, <2>2, <2>3
  <2> QED  BY <1>1, <1>2, <1>6, <2>3, <2>4, PrefixWritten
<1> QED  BY <1>1, <1>4, <1>5, <1>6

(* A context that serialize accepts                                        *)
LEMMA SerializeContextSuits ==
  ASSUME NEW b, IsBuild(b), NEW T \in DOMAIN b.private, NEW given \in Contexts, NEW context,
         context = SerializeContext(b, T, given), context.accepted
  PROVE  /\ context.ctx.version <= b.interface /\ PointerFlagsAgree(context.ctx)
         /\ testDataFlagsCompatibility(b, T, context.ctx.flags)
<1>1. PICK ctx \in Contexts :
        /\ context.ctx = RaiseNotMatch(b, T, ctx)
        /\ ctx.version \in getOriginPrivateVersion(b, T)..b.interface
        /\ PointerFlagsAgree(ctx) /\ testDataFlagsCompatibility(b, T, ctx.flags)
  <2> DEFINE ctx == IF given.version = Undefined
                    THEN [given EXCEPT !.version = getLatestInterfaceVersion(b, T)] ELSE given
  <2>1. /\ context.ctx = RaiseNotMatch(b, T, ctx)
        /\ ctx.version \in getOriginPrivateVersion(b, T)..b.interface
        /\ PointerFlagsAgree(ctx) /\ testDataFlagsCompatibility(b, T, ctx.flags)
    BY DEF SerializeContext
  <2>2. getLatestInterfaceVersion(b, T) \in Nat
    BY LatestIs
  <2>3. ctx \in Contexts
    BY <2>2 DEF Contexts
  <2> QED  BY <2>1, <2>3
<1>2. context.ctx.version = ctx.version /\ context.ctx.flags = ctx.flags
  BY <1>1 DEF RaiseNotMatch, Contexts
<1> QED  BY <1>1, <1>2 DEF PointerFlagsAgree

(* serialize of the struct of the message starts where a reading starts.   *)
LEMMA SerializeKeepsReading ==
  ASSUME ReadingInv, NEW g \in Graphs, Serialize(g)
  PROVE  ReadingInv'
<1> DEFINE context == SerializeContext(writer, RootType, sctx)
           item == Latest(writer, RootType, Root)
<1>1. /\ UNCHANGED pair /\ sctx' = context.ctx /\ out' = Header
      /\ \/ /\ context.accepted /\ agenda' = <<item>>
            /\ phase' = "write" /\ status' = "writing"
         \/ Stop("refused")
  BY DEF Serialize
<1>2. BodyInv /\ BodyInv'
  BY SerializeKeepsBodyInv DEF ReadingInv
<1>3. CASE Stop("refused")
  BY <1>1, <1>2, <1>3, StopKeeps
<1>4. CASE /\ context.accepted /\ agenda' = <<item>>
           /\ phase' = "write" /\ status' = "writing"
  <2>1. sctx \in Contexts /\ IsBuild(writer) /\ RootType \in DOMAIN writer.private
    BY <1>2, SidesAreBuilds DEF BodyInv, Typed, TypeOK
  <2>2. /\ sctx'.version <= writer.interface /\ PointerFlagsAgree(sctx')
        /\ testDataFlagsCompatibility(writer, RootType, sctx'.flags)
    BY <1>1, <1>4, <2>1, SerializeContextSuits
  <2>3. writer' = writer /\ reader' = reader
    BY <1>1 DEF writer, reader
  <2>4. /\ item.do = "struct" /\ item.type = RootType
        /\ item.version = getLatestPrivateVersion(writer, RootType)
    BY DEF Latest, Whole, Struct
  <2> HIDE DEF item, context
  <2>5. PICK c : c = sctx'.version
    OBVIOUS
  <2>6. Shape(writer, c, agenda') = <<LatestSymbol(writer, c, RootType)>>
    BY <1>4, <2>4, StructShape DEF LatestSymbol
  <2>7. Start' = Reading(<<LatestSymbol(writer, c, RootType)>>, Len(out'))
    BY <1>1, <2>3, <2>5 DEF Start
  <2>8. Leads(writer, sctx', out', Start', Reading(Shape(writer, c, agenda'), Len(out')))
    BY <2>6, <2>7, LeadsHere
  <2>9. WritingLeads' /\ ReadingLeads'
    BY <1>4, <2>3, <2>5, <2>8 DEF WritingLeads, ReadingLeads
  <2>10. ContextsAgree'
    BY <1>4, <2>2, <2>3 DEF ContextsAgree
  <2>11. /\ RootType \in DOMAIN writer'.private
         /\ testDataFlagsCompatibility(writer', RootType, sctx'.flags)
    BY <2>1, <2>2, <2>3
  <2>12. ItemsSuit'
    <3>1. Elements(agenda') = {item}
      BY <1>4, AgendaOfOne
    <3>2. Worker' = writer' /\ WorkerContext' = sctx'
      BY <1>4 DEF Worker, WorkerContext
    <3> QED  BY <2>4, <2>11, <3>1, <3>2 DEF ItemsSuit, ItemSuits, TypeSuits, MemberKinds
  <2>13. AcceptedIsRead'
    BY <1>4 DEF AcceptedIsRead
  <2> QED  BY <1>2, <2>9, <2>10, <2>12, <2>13 DEF ReadingInv
<1> QED  BY <1>1, <1>3, <1>4

(* Between two messages there is nothing to do.                            *)
LEMMA BetweenKeepsReading ==
  ASSUME ReadingInv, BodyInv', phase' = "idle", agenda' = <<>>, status' \in {"none", "ready"}
  PROVE  ReadingInv'
<1>1. Elements(agenda') = {}
  BY AgendaOfOne
<1> QED  BY <1>1 DEF ReadingInv, WritingLeads, ReadingLeads, ContextsAgree, ItemsSuit,
                     AcceptedIsRead

-----------------------------------------------------------------------------
(* The steps of the reader.                                                *)

(* What comes next must be met, for the reading comes to the end.          *)
LEMMA MustRead ==
  ASSUME NEW b, NEW ctx, NEW y, Leads(b, ctx, out, y, End), y.todo # <<>>
  PROVE  Meets(b, ctx, out, y) /\ Leads(b, ctx, out, After(b, ctx, out, y), End)
<1>1. End.todo = <<>>
  BY DEF End, Reading
<1> QED  BY <1>1, MustMeet

(* A step that reads nothing goes on with items that come to the same.     *)
LEMMA ReaderSplits ==
  ASSUME OneHistory, ReadingInv, BodyInv', phase = "read", agenda # <<>>,
         UNCHANGED <<pair, writerVars, dctx, tell>>,
         NEW items, IsSequence(items), Continue(items), NEW n,
         \A x \in Elements(items) : IsItem(reader, dctx, n, x) /\ ItemSuits(reader, dctx, x),
         Shape(reader, sctx.version, items) = ItemSymbols(reader, sctx.version, Head(agenda))
  PROVE  ReadingInv'
<1>1. PICK rest : rest = Shape(reader, sctx.version, Tail(agenda))
  OBVIOUS
<1>2. Leads(writer, sctx, out,
            Reading(Then(ItemSymbols(reader, sctx.version, Head(agenda)), rest), tell), End)
  BY <1>1, ReaderIsAt
<1>3. Leads(writer, sctx, out,
            Reading(Then(Shape(reader, sctx.version, items), rest), tell'), End)
  BY <1>2
<1>4. /\ UNCHANGED <<pair, writerVars, dctx, phase, status>> /\ agenda' = items \o Tail(agenda)
  BY DEF Continue
<1> QED  BY <1>1, <1>3, <1>4, ReaderLeadsOn

(* A step that is done with an item goes on with the rest.                 *)
LEMMA ReaderIsDone ==
  ASSUME OneHistory, ReadingInv, BodyInv', phase = "read", agenda # <<>>,
         UNCHANGED <<pair, writerVars, dctx>>, Continue(<<>>),
         NEW rest, rest = Shape(reader, sctx.version, Tail(agenda)),
         Leads(writer, sctx, out, Reading(rest, tell'), End)
  PROVE  ReadingInv'
<1>1. IsSequence(rest)
  BY ReaderIsAt
<1>2. Then(Shape(reader, sctx.version, <<>>), rest) = rest
  BY <1>1, ShapeOfNone, ThenIs
<1>3. /\ UNCHANGED <<pair, writerVars, dctx, phase, status>> /\ agenda' = <<>> \o Tail(agenda)
  BY DEF Continue
<1>4. IsSequence(<<>>) /\ Elements(<<>>) = {}
  BY AgendaOfOne
<1> QED  BY <1>2, <1>3, <1>4, ReaderLeadsOn

(* deserialize of a member                                                 *)
LEMMA DeserializeMemberKeepsReading ==
  ASSUME OneHistory, ReadingInv, DeserializeMember
  PROVE  ReadingInv'
<1> DEFINE item == Head(agenda)
<1>1. /\ phase = "read" /\ agenda # <<>> /\ item.do = "member"
      /\ UNCHANGED <<pair, writerVars, readerVars>>
      /\ Continue(<<SubStruct(reader, item, 1)>>)
  BY DEF DeserializeMember, Doing
<1>2. BodyInv /\ BodyInv'
  BY DeserializeMemberKeepsBodyInv DEF ReadingInv
<1>3. IsItem(reader, dctx, made, item) /\ ItemSuits(reader, dctx, item)
  BY <1>1, ReaderIsAt
<1>4. item.member.kind = "member"
  BY <1>1, <1>3, ItemIsMember DEF MemberKinds
<1> HIDE DEF item
<1>5. PICK sub : sub = SubStruct(reader, item, 1)
  OBVIOUS
<1>6. IsItem(reader, dctx, made, sub) /\ ItemSuits(reader, dctx, sub)
  BY <1>1, <1>3, <1>5, SubStructIsItem, SubStructSuits
<1>7. Shape(reader, sctx.version, <<sub>>) = ItemSymbols(reader, sctx.version, Head(agenda))
  BY <1>1, <1>4, <1>5, MemberShape DEF item
<1>8. UNCHANGED <<pair, writerVars, dctx, tell>> /\ Continue(<<sub>>)
  BY <1>1, <1>5 DEF readerVars
<1> QED  BY <1>1, <1>2, <1>6, <1>7, <1>8, AgendaOfOne, ReaderSplits

(* deserialize of a number                                                 *)
LEMMA DeserializeNumberKeepsReading ==
  ASSUME OneHistory, ReadingInv, DeserializeNumber
  PROVE  ReadingInv'
<1> DEFINE item == Head(agenda)
<1>1. /\ phase = "read" /\ agenda # <<>> /\ item.do = "number"
      /\ UNCHANGED <<pair, writerVars, dctx>>
      /\ Expects("number", 1) => Read(1) /\ Continue(<<>>)
      /\ ~Expects("number", 1) => Abandon("garbled")
  BY DEF DeserializeNumber, Doing
<1>2. BodyInv /\ BodyInv'
  BY DeserializeNumberKeepsBodyInv DEF ReadingInv
<1>3. PICK rest : rest = Shape(reader, sctx.version, Tail(agenda))
  OBVIOUS
<1>4. /\ IsItem(reader, dctx, made, item) /\ IsSequence(rest) /\ tell \in Nat /\ Len(out) \in Nat
      /\ Leads(writer, sctx, out,
               Reading(Then(ItemSymbols(reader, sctx.version, item), rest), tell), End)
  BY <1>1, <1>3, ReaderIsAt
<1>5. item.member.kind = "number"
  BY <1>1, <1>4, ItemIsMember DEF MemberKinds
<1>6. ItemSymbols(reader, sctx.version, item) = <<NumberSymbol>>
  BY <1>1, <1>5 DEF ItemSymbols, MemberSymbols, MemberKinds
<1> DEFINE y == Reading(First(NumberSymbol, rest), tell)
<1>7. Leads(writer, sctx, out, y, End)
  <2>1. Then(<<NumberSymbol>>, rest) = First(NumberSymbol, rest)
    BY <1>4, ThenIs
  <2> QED  BY <1>4, <1>6, <2>1
<1>8. Facing(y, NumberSymbol, rest, tell)
  BY <1>4, ReadingFaces
<1> HIDE DEF y, item
<1>9. y.todo # <<>>
  BY <1>8 DEF Facing
<1>10. Meets(writer, sctx, out, y) /\ Leads(writer, sctx, out, After(writer, sctx, out, y), End)
  BY <1>7, <1>9, MustRead
<1>11. Expects("number", 1)
  <2>1. tell \in 0..(Len(out) - 1) /\ out[tell + 1][1] = "number"
    BY <1>8, <1>10, NumberMeets
  <2> QED  BY <1>4, <2>1 DEF Expects
<1>12. Leads(writer, sctx, out, Reading(rest, tell'), End) /\ Continue(<<>>)
  <2>1. After(writer, sctx, out, y) = Reading(rest, tell + 1)
    BY <1>4, <1>8, AfterNumber
  <2> QED  BY <1>1, <1>10, <1>11, <2>1 DEF Read
<1> QED  BY <1>1, <1>2, <1>3, <1>12, ReaderIsDone

(* deserialize of an element of an array, which only gets its place        *)
LEMMA DeserializeElementKeepsReading ==
  ASSUME OneHistory, ReadingInv, DeserializeElement
  PROVE  ReadingInv'
<1> DEFINE item == Head(agenda)
<1>1. /\ phase = "read" /\ agenda # <<>> /\ item.do = "element"
      /\ UNCHANGED <<pair, writerVars, dctx, tell>> /\ Continue(<<>>)
  BY DEF DeserializeElement, Doing
<1>2. BodyInv /\ BodyInv'
  BY DeserializeElementKeepsBodyInv DEF ReadingInv
<1>3. ItemSymbols(reader, sctx.version, item) = <<>>
  BY <1>1 DEF ItemSymbols, MemberKinds
<1>4. Shape(reader, sctx.version, <<>>) = ItemSymbols(reader, sctx.version, Head(agenda))
  BY <1>3, ShapeOfNone
<1>5. IsSequence(<<>>) /\ Elements(<<>>) = {}
  BY AgendaOfOne
<1> QED  BY <1>1, <1>2, <1>4, <1>5, ReaderSplits

(* A temporary of an older version is converted: there are inits for it.   *)
LEMMA ConvertToUpperVersionKeepsReading ==
  ASSUME OneHistory, ReadingInv, ConvertToUpperVersion
  PROVE  ReadingInv'
<1> DEFINE item == Head(agenda)
<1>1. /\ phase = "read" /\ agenda # <<>> /\ item.do = "convert"
      /\ UNCHANGED <<pair, writerVars, dctx, tell>>
      /\ \/ convertToUpperVersion(reader, item.type, item.version, item.chain) => Continue(<<>>)
         \/ Abandon("no memory")
  BY DEF ConvertToUpperVersion, Doing
<1>2. BodyInv /\ BodyInv'
  BY ConvertToUpperVersionKeepsBodyInv DEF ReadingInv
<1>3. ItemSuits(reader, dctx, item)
  BY <1>1, ReaderIsAt
<1>4. convertToUpperVersion(reader, item.type, item.version, item.chain)
  BY <1>1, <1>3 DEF ItemSuits
<1>5. CASE Continue(<<>>)
  <2>1. ItemSymbols(reader, sctx.version, item) = <<>>
    BY <1>1 DEF ItemSymbols, MemberKinds
  <2>2. Shape(reader, sctx.version, <<>>) = ItemSymbols(reader, sctx.version, Head(agenda))
    BY <2>1, ShapeOfNone
  <2>3. IsSequence(<<>>) /\ Elements(<<>>) = {}
    BY AgendaOfOne
  <2> QED  BY <1>1, <1>2, <1>5, <2>2, <2>3, ReaderSplits
<1>6. CASE Abandon("no memory")
  <2>1. Stop("no memory")
    BY <1>6 DEF Abandon
  <2> QED  BY <1>1, <1>2, <2>1, StopKeeps
<1> QED  BY <1>1, <1>4, <1>5, <1>6

(* The message is read: nothing is left to do, and so nothing to read.     *)
LEMMA EndOfReadingKeepsReading ==
  ASSUME ReadingInv, EndOfReading
  PROVE  ReadingInv'
<1>1. /\ phase = "read" /\ agenda = <<>> /\ phase' = "idle" /\ status' = "received"
      /\ UNCHANGED <<pair, agenda, writerVars, readerVars>>
  BY DEF EndOfReading
<1>2. BodyInv /\ BodyInv'
  BY EndOfReadingKeepsBodyInv DEF ReadingInv
<1>3. Leads(writer, sctx, out, Reading(<<>>, tell), End)
  BY <1>1, ShapeOfNone DEF ReadingInv, ReadingLeads
<1>4. Reading(<<>>, tell).todo = <<>> /\ Reading(<<>>, tell).at = tell /\ End.at = Len(out)
  BY DEF Reading, End
<1>5. Reading(<<>>, tell) = End
  BY <1>3, <1>4, NothingLeft
<1>6. tell' = Len(out')
  <2>1. tell' = tell /\ out' = out
    BY <1>1 DEF readerVars, writerVars
  <2> QED  BY <1>4, <1>5, <2>1
<1>7. AcceptedIsRead'
  BY <1>1, <1>6 DEF AcceptedIsRead
<1>8. WritingLeads' /\ ReadingLeads' /\ ContextsAgree'
  BY <1>1 DEF WritingLeads, ReadingLeads, ContextsAgree
<1>9. ItemsSuit'
  BY <1>1, AgendaOfOne DEF ItemsSuit
<1> QED  BY <1>2, <1>7, <1>8, <1>9 DEF ReadingInv

(* With at most three versions there is an init for every step of a chain. *)
LEMMA ChainConverts ==
  ASSUME ThreeVersions, pair \in Pairs, IsBuild(reader), NEW T \in DOMAIN reader.private,
         NEW v \in ToSet(reader.private[T]), NEW target \in ToSet(reader.private[T]), target < v,
         NEW chain, chain = FromVersion(reader, T, v, target)
  PROVE  convertToUpperVersion(reader, T, v, chain)
<1>1. Len(reader.private[T]) <= 3
  BY DEF ThreeVersions, reader
<1>2. /\ IsSequence(chain) /\ chain # <<>> /\ Len(chain) < Len(reader.private[T])
      /\ \E i \in 1..(Len(reader.private[T]) - 1) :
           v = reader.private[T][i] /\ chain[Len(chain)] = reader.private[T][i + 1]
  BY VersionsUp
<1>3. Len(reader.private[T]) \in Nat
  BY PrivateVersions
<1>4. Len(chain) \in 1..2
  <2>1. Len(chain) \in Nat
    BY <1>2 DEF IsSequence
  <2>2. Len(chain) >= 1
    BY <1>2, TailElements
  <2>3. PICK k \in Nat : k = Len(reader.private[T])
    BY <1>3
  <2>4. PICK l \in Nat : l = Len(chain)
    BY <2>1
  <2>5. k <= 3 /\ l < k /\ l >= 1
    BY <1>1, <1>2, <2>2, <2>3, <2>4
  <2>6. l \in 1..2
    BY <2>5
  <2> QED  BY <2>4, <2>6
<1>5. InitableBySpecialArgs(reader, T, v, chain[Len(chain)])
  BY <1>2 DEF InitableBySpecialArgs
<1>6. CASE Len(chain) = 1
  BY <1>5, <1>6 DEF convertToUpperVersion
<1>7. CASE Len(chain) = 2
  <2>1. \A i \in 2..2 : i = 2
    OBVIOUS
  <2> QED  BY <1>5, <1>7, <2>1 DEF convertToUpperVersion
<1> QED  BY <1>4, <1>6, <1>7

(* A struct, and what has no symbols, come to what the struct comes to.    *)
LEMMA ShapeOfTwo ==
  ASSUME NEW b, NEW c, NEW x, NEW y, x.do = "struct", y.do = "convert"
  PROVE  Shape(b, c, <<x, y>>) = <<StructSymbol(b, c, x.type, x.version)>>
<1>1. ItemSymbols(b, c, x) = <<StructSymbol(b, c, x.type, x.version)>>
  BY StructShape
<1>2. ItemSymbols(b, c, y) = <<>>
  BY DEF ItemSymbols, MemberKinds
<1>3. IsSequence(ItemSymbols(b, c, x)) /\ IsSequence(ItemSymbols(b, c, y))
  BY <1>1, <1>2, AgendaOfOne
<1>4. /\ Symbolic(b, c, <<x>>) /\ Shape(b, c, <<x>>) = ItemSymbols(b, c, x)
      /\ Symbolic(b, c, <<y>>) /\ Shape(b, c, <<y>>) = ItemSymbols(b, c, y)
  BY <1>3, ShapeOfOne
<1>5. Shape(b, c, <<x>> \o <<y>>) = Shape(b, c, <<x>>) \o Shape(b, c, <<y>>)
  <2>1. PICK s, t : s = <<x>> /\ t = <<y>>
    OBVIOUS
  <2>2. Symbolic(b, c, s) /\ Symbolic(b, c, t)
    BY <1>4, <2>1
  <2>3. Shape(b, c, s \o t) = Shape(b, c, s) \o Shape(b, c, t)
    BY <2>2, ShapeConcat
  <2> QED  BY <2>1, <2>3
<1>6. ItemSymbols(b, c, x) \o <<>> = ItemSymbols(b, c, x)
  BY <1>3, NothingAdded
<1> QED  BY <1>1, <1>2, <1>4, <1>5, <1>6, TwoElements

(* fromOldStruct                                                           *)
LEMMA FromOldStructKeepsReading ==
  ASSUME OneHistory, ThreeVersions, ReadingInv, FromOldStruct
  PROVE  ReadingInv'
<1> DEFINE item == Head(agenda)
           T == item.type
           v == item.version
           target == VersionInMessage(reader, item, dctx)
           chain == FromVersion(reader, T, v, target)
           temporary == <<made + 1>>
           older == Whole(reader, T, Head(chain), temporary, temporary)
           conversion == [do |-> "convert", type |-> T, version |-> v,
                          at |-> item.at, temporary |-> temporary, chain |-> chain]
<1>1. /\ phase = "read" /\ agenda # <<>> /\ item.do = "struct" /\ target # v
      /\ UNCHANGED <<pair, writerVars, dctx, objectsMap, tell, memory>>
      /\ \/ Continue(<<older, conversion>>)
         \/ Abandon("no memory")
  BY DEF FromOldStruct, Doing
<1>2. BodyInv /\ BodyInv'
  BY FromOldStructKeepsBodyInv DEF ReadingInv
<1>3. /\ IsItem(reader, dctx, made, item) /\ dctx \in Contexts /\ IsBuild(reader)
      /\ ItemSuits(reader, dctx, item) /\ dctx.version = sctx.version /\ pair \in Pairs
  BY <1>1, ReaderIsAt
<1>4. /\ StructInMessage(reader, dctx, T, v) /\ IsPlace(item.at)
      /\ T \in DOMAIN reader.private /\ v \in ToSet(reader.private[T])
      /\ target \in ToSet(reader.private[T]) /\ dctx.notMatch /\ target < v
  BY <1>1, <1>3, ItemIsStruct, MessageVersion
<1>5. CASE Continue(<<older, conversion>>)
  <2>1. Head(chain) = target
    BY <1>3, <1>4, VersionsUp
  <2>2. convertToUpperVersion(reader, T, v, chain)
    BY <1>3, <1>4, ChainConverts
  <2>3. /\ getBestCompatInterfaceVersion(reader, T, v, sctx.version) = target
        /\ getBestCompatInterfaceVersion(reader, T, target, sctx.version) = target
    BY <1>3, <1>4, SymbolVersion
  <2>4. /\ older.do = "struct" /\ older.type = T /\ older.version = target
        /\ conversion.do = "convert"
    BY <2>1 DEF Whole, Struct
  <2>5. StructInMessage(reader, dctx, T, target)
    BY <1>4 DEF StructInMessage
  <2>6. IsItem(reader, dctx, made + 1, older)
    BY <2>1, <2>5, ObjectIsPlace, StructIsItem DEF Whole
  <2>7. IsItem(reader, dctx, made + 1, conversion)
    <3>1. made \in Nat
      BY <1>2 DEF BodyInv, Typed, IsMemory
    <3>2. \E k \in 1..(made + 1) : temporary = <<k>>
      BY <3>1
    <3> QED  BY <1>4, <3>2 DEF IsItem, MemberKinds
  <2>8. ItemSuits(reader, dctx, older)
    <3> HIDE DEF older
    <3> QED  BY <1>1, <1>3, <2>4 DEF ItemSuits, MemberKinds
  <2>9. ItemSuits(reader, dctx, conversion)
    BY <2>2 DEF ItemSuits, MemberKinds
  <2>10. ItemSymbols(reader, sctx.version, item) = <<StructSymbol(reader, sctx.version, T, v)>>
    BY <1>1, StructShape
  <2> HIDE DEF older, conversion
  <2>11. PICK items : items = <<older, conversion>>
    OBVIOUS
  <2>12. Shape(reader, sctx.version, items) = <<StructSymbol(reader, sctx.version, T, target)>>
    BY <2>4, <2>11, ShapeOfTwo
  <2>13. StructSymbol(reader, sctx.version, T, target) = StructSymbol(reader, sctx.version, T, v)
    BY <2>3 DEF StructSymbol
  <2>14. Shape(reader, sctx.version, items) = ItemSymbols(reader, sctx.version, Head(agenda))
    BY <2>10, <2>12, <2>13
  <2>15. IsSequence(items) /\ Elements(items) = {older, conversion}
    <3>1. PICK s, t : s = <<older>> /\ t = <<conversion>>
      OBVIOUS
    <3>2. /\ IsSequence(s) /\ IsSequence(t)
          /\ Elements(s) = {older} /\ Elements(t) = {conversion}
      BY <3>1, AgendaOfOne
    <3>3. IsSequence(s \o t) /\ Elements(s \o t) = Elements(s) \cup Elements(t)
      BY <3>2, Concatenated
    <3>4. items = s \o t
      BY <2>11, <3>1, TwoElements
    <3> QED  BY <3>2, <3>3, <3>4
  <2>16. PICK n : n = made + 1
    OBVIOUS
  <2>17. \A x \in Elements(items) : IsItem(reader, dctx, n, x) /\ ItemSuits(reader, dctx, x)
    BY <2>6, <2>7, <2>8, <2>9, <2>15, <2>16
  <2> QED  BY <1>1, <1>2, <1>5, <2>11, <2>14, <2>15, <2>17, ReaderSplits
<1>6. CASE Abandon("no memory")
  <2>1. Stop("no memory")
    BY <1>6 DEF Abandon
  <2> QED  BY <1>1, <1>2, <2>1, StopKeeps
<1> QED  BY <1>1, <1>5, <1>6

(* Both sides copy the same structs of the versions in the message.        *)
LEMMA BothCopy ==
  ASSUME OneHistory, ReadingInv, phase = "read", agenda # <<>>,
         NEW T \in DOMAIN writer.private \cap DOMAIN reader.private,
         NEW v \in ToSet(reader.private[T]), v <= sctx.version
  PROVE  /\ InBytes(writer, sctx, T, v) <=> SimplyAssigned(reader.layout[T][v], dctx)
         /\ StructSymbols(writer, sctx.version, T, v) = StructSymbols(reader, sctx.version, T, v)
         /\ Names(writer, T, v) = Names(reader, T, v)
         /\ \A m \in ToSet(reader.layout[T][v].members) :
              m.kind # "number" => m.type \in DOMAIN writer.private
<1>1. /\ IsBuild(writer) /\ IsBuild(reader) /\ sctx.version \in Nat
      /\ dctx.version = sctx.version /\ dctx.flags = sctx.flags
      /\ dctx.endiannessDifference = sctx.endiannessDifference
      /\ SameStructs(writer, reader, sctx.version)
  BY ReaderIsAt
<1>2. InBytes(writer, sctx, T, v) <=> SimplyAssigned(reader.layout[T][v], dctx)
  BY <1>1, SameAssignment DEF InBytes
<1> QED  BY <1>1, <1>2, SameSymbols

(* Bytes that were written for structs of a version are taken for them.    *)
LEMMA BytesAreExpected ==
  ASSUME tell \in Nat, Len(out) \in Nat, NEW T, NEW v, Names(writer, T, v) = Names(reader, T, v),
         NEW structs, NEW n \in Nat, n >= 1, n = Len(structs),
         structs[1].type = T, structs[1].version = v,
         \A j \in 1..n : BytesAt(writer, out, T, v, tell + j),
         TakeBytes(structs)
  PROVE  tell' = tell + n /\ Continue(<<>>)
<1>1. ASSUME NEW j \in 1..n
      PROVE  /\ tell + j <= Len(out) /\ out[tell + j][1] = "bytes"
             /\ DOMAIN out[tell + j][2] = Names(reader, T, v)
  BY DEF BytesAt
<1>2. n \in 1..n
  OBVIOUS
<1>3. tell + n <= Len(out)
  BY <1>1, <1>2
<1>4. Expects("bytes", n)
  BY <1>1, <1>3 DEF Expects
<1>5. ExpectsBytes(structs)
  BY <1>1, <1>4 DEF ExpectsBytes
<1> QED  BY <1>5 DEF TakeBytes, Read

(* deserialize of a struct of the version of the message                   *)
LEMMA DeserializeStructKeepsReading ==
  ASSUME OneHistory, FlagsOfParts, ReadingInv, DeserializeStruct
  PROVE  ReadingInv'
<1> DEFINE item == Head(agenda)
           T == item.type
           v == item.version
           c == sctx.version
<1>1. /\ phase = "read" /\ agenda # <<>> /\ item.do = "struct"
      /\ VersionInMessage(reader, item, dctx) = v
      /\ UNCHANGED <<pair, writerVars, dctx, objectsMap, made>>
  BY DEF DeserializeStruct, Doing
<1>2. BodyInv /\ BodyInv'
  BY DeserializeStructKeepsBodyInv DEF ReadingInv
<1>3. PICK rest : rest = Shape(reader, c, Tail(agenda))
  OBVIOUS
<1>4. /\ IsItem(reader, dctx, made, item) /\ dctx \in Contexts /\ IsBuild(reader)
      /\ IsBuild(writer) /\ ItemSuits(reader, dctx, item) /\ pair \in Pairs /\ IsSequence(rest)
      /\ tell \in Nat /\ Len(out) \in Nat /\ dctx.version = c
      /\ Leads(writer, sctx, out,
               Reading(Then(ItemSymbols(reader, c, item), rest), tell), End)
  BY <1>1, <1>3, ReaderIsAt
<1>5. /\ StructInMessage(reader, dctx, T, v) /\ T \in DOMAIN reader.private
      /\ v \in ToSet(reader.private[T]) /\ v <= c
  BY <1>1, <1>4, ItemIsStruct, MessageVersion
<1>6. ItemSymbols(reader, c, item) = <<VersionSymbol(T, v)>>
  <2>1. getBestCompatInterfaceVersion(reader, T, v, c) = v
    BY <1>1, <1>4, <1>5, SymbolVersion
  <2> QED  BY <1>1, <2>1, StructShape DEF StructSymbol
<1>7. T \in DOMAIN writer.private /\ FlagsSuit(reader, item, dctx)
  BY <1>1, <1>4 DEF ItemSuits, TypeSuits, FlagsSuit
<1>8. /\ InBytes(writer, sctx, T, v) <=> SimplyAssigned(reader.layout[T][v], dctx)
      /\ StructSymbols(writer, c, T, v) = StructSymbols(reader, c, T, v)
      /\ Names(writer, T, v) = Names(reader, T, v)
      /\ \A m \in ToSet(reader.layout[T][v].members) :
           m.kind # "number" => m.type \in DOMAIN writer.private
  BY <1>1, <1>5, <1>7, BothCopy
<1> DEFINE y == Reading(First(VersionSymbol(T, v), rest), tell)
<1>9. Leads(writer, sctx, out, y, End)
  <2>1. Then(<<VersionSymbol(T, v)>>, rest) = First(VersionSymbol(T, v), rest)
    BY <1>4, ThenIs
  <2> QED  BY <1>4, <1>6, <2>1
<1>10. Facing(y, VersionSymbol(T, v), rest, tell)
  BY <1>4, ReadingFaces
<1>11. y.todo # <<>>
  BY <1>10 DEF Facing
<1>12. rest = Shape(reader, sctx.version, Tail(agenda))
  BY <1>3
<1>13. CASE InBytes(writer, sctx, T, v)
  <2>1. TakeBytes(<<item>>)
    BY <1>7, <1>8, <1>13 DEF DeserializeStruct, Layout
  <2>2. PICK structs : structs = <<item>>
    OBVIOUS
  <2>3. Len(structs) = 1 /\ structs[1] = item /\ TakeBytes(structs)
    BY <2>1, <2>2
  <2>4. structs[1].type = T /\ structs[1].version = v
    BY <2>3
  <2> HIDE DEF y, T, v, c, item
  <2>5. Meets(writer, sctx, out, y) /\ Leads(writer, sctx, out, After(writer, sctx, out, y), End)
    BY <1>9, <1>11, MustRead
  <2>6. BytesAt(writer, out, T, v, tell + 1)
    BY <1>4, <1>10, <1>13, <2>5, BytesMeet
  <2>7. After(writer, sctx, out, y) = Reading(rest, tell + 1)
    BY <1>4, <1>10, <1>13, AfterBytes
  <2>8. tell' = tell + 1 /\ Continue(<<>>)
    <3>1. PICK n \in Nat : n = 1
      OBVIOUS
    <3>2. n >= 1 /\ n = Len(structs) /\ \A j \in 1..n : BytesAt(writer, out, T, v, tell + j)
      BY <2>3, <2>6, <3>1
    <3>3. tell' = tell + n /\ Continue(<<>>)
      BY <1>4, <1>8, <2>3, <2>4, <3>2, BytesAreExpected
    <3> QED  BY <3>1, <3>3
  <2>9. Leads(writer, sctx, out, Reading(rest, tell'), End)
    BY <2>5, <2>7, <2>8
  <2> QED  BY <1>1, <1>2, <1>12, <2>8, <2>9, ReaderIsDone
<1>14. CASE ~InBytes(writer, sctx, T, v)
  <2>1. Continue(MembersOf(reader, item)) /\ tell' = tell
    BY <1>7, <1>8, <1>14 DEF DeserializeStruct, Layout
  <2>2. /\ IsSequence(MembersOf(reader, item))
        /\ \A x \in Elements(MembersOf(reader, item)) : IsItem(reader, dctx, made, x)
    BY <1>1, <1>4, MembersAreItems
  <2>3. \A x \in Elements(MembersOf(reader, item)) : ItemSuits(reader, dctx, x)
    BY <1>1, <1>4, <1>5, <1>8, MembersSuit
  <2>4. Shape(reader, c, MembersOf(reader, item)) = StructSymbols(reader, c, T, v)
    BY <1>4, <1>5, ShapeOfMembers
  <2> HIDE DEF y, T, v, c, item
  <2>5. Leads(writer, sctx, out, After(writer, sctx, out, y), End)
    BY <1>9, <1>11, MustRead
  <2>6. After(writer, sctx, out, y)
          = Reading(StructSymbols(writer, sctx.version, T, v) \o rest, tell)
    BY <1>4, <1>10, <1>14, AfterMembers
  <2>7. Leads(writer, sctx, out,
              Reading(Then(Shape(reader, sctx.version, MembersOf(reader, item)), rest), tell'), End)
    BY <1>8, <2>1, <2>4, <2>5, <2>6 DEF Then, c
  <2>8. UNCHANGED <<pair, writerVars, dctx, phase, status>>
        /\ agenda' = MembersOf(reader, item) \o Tail(agenda)
    BY <1>1, <2>1 DEF Continue
  <2> QED  BY <1>1, <1>2, <1>12, <2>2, <2>3, <2>7, <2>8, ReaderLeadsOn
<1> QED  BY <1>13, <1>14

(* deserialize of an array                                                 *)
LEMMA DeserializeArrayKeepsReading ==
  ASSUME OneHistory, ReadingInv, DeserializeArray
  PROVE  ReadingInv'
<1> DEFINE item == Head(agenda)
           m == item.member
           T == m.type
           v == m.version
           n == m.n
           c == sctx.version
           elements == [j \in 1..n |-> SubStruct(reader, item, j)]
<1>1. /\ phase = "read" /\ agenda # <<>> /\ item.do = "array"
      /\ UNCHANGED <<pair, writerVars, dctx, objectsMap, made>>
  BY DEF DeserializeArray, Doing
<1>2. BodyInv /\ BodyInv'
  BY DeserializeArrayKeepsBodyInv DEF ReadingInv
<1>3. PICK rest : rest = Shape(reader, c, Tail(agenda))
  OBVIOUS
<1>4. /\ IsItem(reader, dctx, made, item) /\ dctx \in Contexts /\ IsBuild(reader)
      /\ ItemSuits(reader, dctx, item) /\ IsSequence(rest)
      /\ tell \in Nat /\ Len(out) \in Nat /\ dctx.version = c
      /\ Leads(writer, sctx, out,
               Reading(Then(ItemSymbols(reader, c, item), rest), tell), End)
  BY <1>1, <1>3, ReaderIsAt
<1>5. n \in Nat /\ n >= 1 /\ m.kind = "array"
  BY <1>1, <1>4, ArrayIs
<1>6. T \in DOMAIN reader.private /\ v \in ToSet(reader.private[T]) /\ T \in DOMAIN writer.private
  <2>1. MemberInMessage(reader, dctx, m)
    BY <1>1, <1>4, ItemIsMember DEF MemberKinds
  <2>2. T \in DOMAIN writer.private
    BY <1>1, <1>4 DEF ItemSuits, TypeSuits, MemberKinds
  <2> QED  BY <1>5, <2>1, <2>2 DEF MemberInMessage, StructInMessage, InMessage
<1>7. Then(ItemSymbols(reader, c, item), rest) = Copies(StructSymbol(reader, c, T, v), n, rest)
  BY <1>1, <1>4, ArrayShape
<1>8. CASE SimplyAssigned(reader.layout[T][v], dctx)
  <2>1. TakeBytes(elements)
    BY <1>8 DEF DeserializeArray
  <2>2. v <= c /\ StructSymbol(reader, c, T, v) = VersionSymbol(T, v)
    BY <1>4, <1>6, <1>8, AssignedIsBest DEF StructSymbol
  <2>3. InBytes(writer, sctx, T, v) /\ Names(writer, T, v) = Names(reader, T, v)
    BY <1>1, <1>6, <1>8, <2>2, BothCopy
  <2>4. Len(elements) = n /\ elements[1].type = T /\ elements[1].version = v
    <3>1. PICK sub : sub = SubStruct(reader, item, 1)
      OBVIOUS
    <3>2. sub.type = T /\ sub.version = v
      BY <3>1 DEF SubStruct, Whole, Struct
    <3>3. Len(elements) = n /\ elements[1] = sub
      BY <1>5, <3>1
    <3> QED  BY <3>2, <3>3
  <2> HIDE DEF elements, T, v, n, c, m, item
  <2>5. Leads(writer, sctx, out, Reading(Copies(VersionSymbol(T, v), n, rest), tell), End)
    BY <1>4, <1>7, <2>2
  <2>6. End.todo = <<>>
    BY DEF End, Reading
  <2>7. /\ \A j \in 1..n : BytesAt(writer, out, T, v, tell + j)
        /\ Leads(writer, sctx, out, Reading(rest, tell + n), End)
    BY <1>4, <1>5, <2>3, <2>5, <2>6, MustMeetArray
  <2>8. tell' = tell + n /\ Continue(<<>>)
    BY <1>4, <1>5, <2>1, <2>3, <2>4, <2>7, BytesAreExpected
  <2>9. Leads(writer, sctx, out, Reading(rest, tell'), End)
    BY <2>7, <2>8
  <2>10. rest = Shape(reader, sctx.version, Tail(agenda))
    BY <1>3 DEF c
  <2> QED  BY <1>1, <1>2, <2>8, <2>9, <2>10, ReaderIsDone
<1>9. CASE ~SimplyAssigned(reader.layout[T][v], dctx)
  <2> DEFINE items == FlattenSeq(OneByOne(reader, item))
  <2>1. /\ tell' = tell
        /\ Continue(FlattenSeq([j \in 1..n |->
             <<[do |-> "element", at |-> elements[j].at], elements[j]>>]))
    BY <1>9 DEF DeserializeArray
  <2>2. [j \in 1..n |-> <<[do |-> "element", at |-> elements[j].at], elements[j]>>]
        = OneByOne(reader, item)
    BY DEF OneByOne
  <2>3. Continue(items)
    BY <2>1, <2>2
  <2>4. /\ IsSequence(items)
        /\ \A x \in Elements(items) : IsItem(reader, dctx, made, x)
    BY <1>1, <1>4, ElementsAreItems
  <2>5. \A x \in Elements(items) : ItemSuits(reader, dctx, x)
    BY <1>1, <1>4, ElementsSuit
  <2>6. Shape(reader, sctx.version, items) = ItemSymbols(reader, sctx.version, Head(agenda))
    BY <1>1, <1>4, ShapeOfElements
  <2> HIDE DEF items, item
  <2> QED  BY <1>1, <1>2, <2>1, <2>3, <2>4, <2>5, <2>6, ReaderSplits
<1> QED  BY <1>8, <1>9

(* deserialize of a pointer, whose prefix is no offset further on          *)
LEMMA DeserializePointerKeepsReading ==
  ASSUME OneHistory, ReadingInv, DeserializePointer
  PROVE  ReadingInv'
<1> DEFINE item == Head(agenda)
           T == item.member.type
           c == sctx.version
           slot == Part(item.at, item.member.name, 1)
           prefix == out[tell + 1][2]
           new == <<made + 1>>
<1>1. /\ phase = "read" /\ agenda # <<>> /\ item.do = "pointer"
      /\ UNCHANGED <<pair, writerVars, dctx>>
  BY DEF DeserializePointer, Doing
<1>2. BodyInv /\ BodyInv'
  BY DeserializePointerKeepsBodyInv DEF ReadingInv
<1>3. PICK rest : rest = Shape(reader, c, Tail(agenda))
  OBVIOUS
<1>4. /\ IsItem(reader, dctx, made, item) /\ IsBuild(reader) /\ IsBuild(writer)
      /\ ItemSuits(reader, dctx, item) /\ IsSequence(rest) /\ c \in Nat
      /\ tell \in Nat /\ Len(out) \in Nat /\ dctx.version = c /\ dctx.flags = sctx.flags
      /\ SameStructs(writer, reader, c)
      /\ Leads(writer, sctx, out,
               Reading(Then(ItemSymbols(reader, c, item), rest), tell), End)
  BY <1>1, <1>3, ReaderIsAt
<1>5. item.member.kind = "pointer" /\ InMessage(reader, dctx, T)
  BY <1>1, <1>4, ItemIsMember DEF MemberKinds, MemberInMessage
<1>6. TypeSuits(reader, dctx, T)
  BY <1>1, <1>4 DEF ItemSuits, MemberKinds
<1>7. ItemSymbols(reader, c, item) = <<PointerSymbol(T)>>
  BY <1>1, <1>5 DEF ItemSymbols, MemberSymbols, MemberKinds
<1> DEFINE y == Reading(First(PointerSymbol(T), rest), tell)
<1>8. Leads(writer, sctx, out, y, End)
  <2>1. Then(<<PointerSymbol(T)>>, rest) = First(PointerSymbol(T), rest)
    BY <1>4, ThenIs
  <2> QED  BY <1>4, <1>7, <2>1
<1>9. Facing(y, PointerSymbol(T), rest, tell)
  BY <1>4, ReadingFaces
<1>10. y.todo # <<>>
  BY <1>9 DEF Facing
<1> HIDE DEF y
<1>11. Meets(writer, sctx, out, y) /\ Leads(writer, sctx, out, After(writer, sctx, out, y), End)
  BY <1>8, <1>10, MustRead
<1>12. /\ "allowUnmanagedPointers" \in sctx.flags
       /\ tell \in 0..(Len(out) - 1) /\ out[tell + 1][1] = Prefix(sctx)
       /\ prefix \in 0..tell
  BY <1>9, <1>11, PointerMeets
<1>13. PICK kind : kind = IF "checkRecursivePointers" \in dctx.flags THEN "size" ELSE "flag"
  OBVIOUS
<1>14. "allowUnmanagedPointers" \in dctx.flags /\ Expects(kind, 1)
  <2>1. kind = Prefix(sctx)
    BY <1>4, <1>13 DEF Prefix
  <2> QED  BY <1>4, <1>12, <2>1 DEF Expects
<1>15. /\ tell' = tell + 1
       /\ \/ prefix = 0 /\ Continue(<<>>)
          \/ prefix = 1 /\ NewObject(slot, T)
          \/ prefix > 1 /\ KnownObject(slot, prefix)
  BY <1>13, <1>14 DEF DeserializePointer, Read
<1>16. rest = Shape(reader, sctx.version, Tail(agenda))
  BY <1>3
<1>17. CASE prefix # 1 /\ Continue(<<>>)
  <2> HIDE DEF prefix
  <2>1. After(writer, sctx, out, y) = Reading(rest, tell + 1)
    BY <1>4, <1>9, <1>17, AfterKnown DEF prefix
  <2>2. Leads(writer, sctx, out, Reading(rest, tell'), End)
    BY <1>11, <1>15, <2>1
  <2> QED  BY <1>1, <1>2, <1>16, <1>17, <2>2, ReaderIsDone
<1>18. CASE prefix = 1 /\ Continue(<<Latest(reader, T, new)>>)
  <2>1. PICK object : object = Latest(reader, T, new)
    OBVIOUS
  <2>2. IsItem(reader, dctx, made, object)
    BY <1>4, <1>5, <2>1, ObjectIsPlace, LatestIsItem
  <2>3. /\ object.do = "struct" /\ object.type = T
        /\ object.version = getLatestPrivateVersion(reader, T)
    BY <2>1 DEF Latest, Whole, Struct
  <2>4. ItemSuits(reader, dctx, object)
    BY <1>6, <2>3 DEF ItemSuits, MemberKinds
  <2>5. Shape(reader, c, <<object>>) = <<LatestSymbol(reader, c, T)>>
    BY <2>3, StructShape DEF LatestSymbol
  <2>6. LatestSymbol(writer, c, T) = LatestSymbol(reader, c, T)
    <3>1. T \in DOMAIN writer.private \cap DOMAIN reader.private
          /\ getOriginPrivateVersion(reader, T) <= c
      BY <1>4, <1>5, <1>6 DEF TypeSuits, InMessage
    <3> QED  BY <1>4, <3>1, SameLatest
  <2>7. After(writer, sctx, out, y) = Reading(First(LatestSymbol(writer, c, T), rest), tell + 1)
    BY <1>4, <1>9, <1>18, AfterNew
  <2>8. Leads(writer, sctx, out,
              Reading(Then(Shape(reader, c, <<object>>), rest), tell'), End)
    BY <1>11, <1>15, <2>5, <2>6, <2>7 DEF Then, First
  <2>9. UNCHANGED <<pair, writerVars, dctx, phase, status>>
        /\ agenda' = <<object>> \o Tail(agenda)
    BY <1>1, <1>18, <2>1 DEF Continue
  <2> HIDE DEF T, new, item, prefix
  <2> QED  BY <1>1, <1>2, <1>16, <2>2, <2>4, <2>8, <2>9, AgendaOfOne, ReaderLeadsOn
<1>19. CASE prefix = 1 /\ NewObject(slot, T)
  <2>1. CASE Abandon("no memory")
    <3>1. Stop("no memory")
      BY <2>1 DEF Abandon
    <3> QED  BY <1>1, <1>2, <3>1, StopKeeps
  <2> QED  BY <1>18, <1>19, <2>1 DEF NewObject
<1>20. CASE prefix > 1 /\ KnownObject(slot, prefix)
  <2>1. ~(prefix >= tell') /\ prefix # 1
    BY <1>4, <1>12, <1>15, <1>20
  <2> QED  BY <1>17, <1>20, <2>1 DEF KnownObject
<1> QED  BY <1>15, <1>17, <1>19, <1>20

(* A context that deserialize accepts                                      *)
LEMMA DeserializeContextSuits ==
  ASSUME NEW b, NEW T, NEW given, NEW sent, NEW added, NEW context,
         context = DeserializeContext(b, T, given, sent.version, sent.flags,
                                      sent.endiannessDifference, added),
         context.accepted
  PROVE  sent.version <= b.interface /\ testDataFlagsCompatibility(b, T, sent.flags)
<1>1. \E least : sent.version \in least..b.interface
  BY DEF DeserializeContext
<1>2. testDataFlagsCompatibility(b, T, sent.flags)
  BY DEF DeserializeContext
<1> QED  BY <1>1, <1>2

(* deserialize of the struct of the message starts where it was started.   *)
LEMMA DeserializeKeepsReading ==
  ASSUME OneHistory, ReadingInv, NEW added \in BOOLEAN, Deserialize(added)
  PROVE  ReadingInv'
<1> DEFINE context == DeserializeContext(reader, RootType, dctx, sctx.version, sctx.flags,
                                         sctx.endiannessDifference, added)
           item == Latest(reader, RootType, TheCopy)
<1>1. /\ phase = "written" /\ dctx' = context.ctx /\ tell' = Len(Header)
      /\ UNCHANGED <<pair, writerVars>>
      /\ \/ /\ context.accepted /\ agenda' = <<item>>
            /\ phase' = "read" /\ status' = "reading"
         \/ Stop("refused")
  BY DEF Deserialize
<1>2. BodyInv /\ BodyInv'
  BY DeserializeKeepsBodyInv DEF ReadingInv
<1>3. CASE Stop("refused")
  BY <1>1, <1>2, <1>3, StopKeeps
<1>4. CASE /\ context.accepted /\ agenda' = <<item>>
           /\ phase' = "read" /\ status' = "reading"
  <2>1. /\ sctx \in Contexts /\ dctx \in Contexts /\ pair \in Pairs
        /\ IsBuild(writer) /\ RootType \in DOMAIN writer.private
        /\ IsBuild(reader) /\ RootType \in DOMAIN reader.private
    BY <1>2, SidesAreBuilds DEF BodyInv, Typed, TypeOK
  <2>2. dctx.version = Undefined \/ getOriginPrivateVersion(reader, RootType) <= dctx.version
    BY <1>1, <1>2 DEF BodyInv, Typed, InOrder
  <2>3. PICK c : c = sctx.version
    OBVIOUS
  <2>4. /\ dctx' \in Contexts /\ dctx'.flags = sctx.flags /\ dctx'.version = sctx.version
        /\ dctx'.endiannessDifference = sctx.endiannessDifference
        /\ context.accepted => InMessage(reader, dctx', RootType)
    <3>1. dctx' = context.ctx
      BY <1>1
    <3> QED  BY ONLY <2>1, <2>2, <3>1, DeserializeContextIs
  <2>5. c <= reader.interface /\ testDataFlagsCompatibility(reader, RootType, sctx.flags)
    BY <1>4, <2>3, DeserializeContextSuits
  <2> HIDE DEF context
  <2>6. /\ c \in Nat /\ c <= writer.interface /\ PointerFlagsAgree(sctx)
        /\ getOriginPrivateVersion(reader, RootType) <= c
    BY <1>1, <1>4, <2>1, <2>3, <2>4 DEF ReadingInv, ContextsAgree, Contexts, InMessage
  <2>7. SameStructs(writer, reader, c)
    <3>1. writer.interface \in Nat
      BY <2>1 DEF IsBuild
    <3>2. c \in 0..writer.interface
      BY <2>6, <3>1
    <3> QED  BY <2>1, <2>5, <3>2 DEF OneHistory, writer, reader
  <2>8. LatestSymbol(writer, c, RootType) = LatestSymbol(reader, c, RootType)
    BY <2>1, <2>6, <2>7, SameLatest
  <2>9. /\ item.do = "struct" /\ item.type = RootType
        /\ item.version = getLatestPrivateVersion(reader, RootType)
    BY DEF Latest, Whole, Struct
  <2> HIDE DEF item
  <2>10. Shape(reader, c, agenda') = <<LatestSymbol(reader, c, RootType)>>
    BY <1>4, <2>9, StructShape DEF LatestSymbol
  <2>11. Leads(writer, sctx, out, Start, End)
    <3>1. agenda = <<>>
      BY <1>1, <1>2 DEF BodyInv, Typed, TypeOK
    <3>2. Shape(writer, sctx.version, agenda) = <<>>
      BY <3>1, ShapeOfNone
    <3> QED  BY <1>1, <3>2 DEF ReadingInv, WritingLeads, End
  <2>12. Start = Reading(Shape(reader, c, agenda'), tell')
    BY <1>1, <2>3, <2>8, <2>10 DEF Start
  <2>13. Leads(writer, sctx, out, Reading(Shape(reader, c, agenda'), tell'), End)
    BY <2>11, <2>12
  <2>14. writer' = writer /\ reader' = reader /\ sctx' = sctx /\ out' = out
    BY <1>1 DEF writer, reader, writerVars
  <2>15. End' = End
    BY <2>14 DEF End
  <2>16. ReadingLeads' /\ WritingLeads'
    BY <1>4, <2>3, <2>13, <2>14, <2>15 DEF ReadingLeads, WritingLeads
  <2>17. ContextsAgree'
    BY <1>1, <1>4, <2>3, <2>4, <2>5, <2>6, <2>14 DEF ContextsAgree
  <2>18. ItemsSuit'
    <3>1. Elements(agenda') = {item}
      BY <1>4, AgendaOfOne
    <3>2. Worker' = reader' /\ WorkerContext' = dctx'
      BY <1>4 DEF Worker, WorkerContext
    <3>3. /\ RootType \in DOMAIN writer'.private
          /\ testDataFlagsCompatibility(reader', RootType, dctx'.flags)
      BY <1>1, <2>1, <2>4, <2>5, <2>14
    <3> QED  BY <2>9, <3>1, <3>2, <3>3 DEF ItemsSuit, ItemSuits, TypeSuits, MemberKinds
  <2>19. AcceptedIsRead'
    BY <1>4 DEF AcceptedIsRead
  <2> QED  BY <1>2, <2>16, <2>17, <2>18, <2>19 DEF ReadingInv
<1> QED  BY <1>1, <1>3, <1>4

-----------------------------------------------------------------------------
(* The theorem.                                                            *)

(* It holds at first.                                                      *)
LEMMA InitIsReading ==
  ASSUME Init
  PROVE  ReadingInv
<1>1. BodyInv
  BY InitIsBodyInv
<1>2. phase = "idle" /\ agenda = <<>> /\ status = "none"
  BY DEF Init
<1>3. Elements(agenda) = {}
  BY <1>2, AgendaOfOne
<1> QED  BY <1>1, <1>2, <1>3 DEF ReadingInv, WritingLeads, ReadingLeads, ContextsAgree,
                                 ItemsSuit, AcceptedIsRead

(* Every step keeps it.                                                    *)
LEMMA NextKeepsReading ==
  ASSUME OneHistory, FlagsOfParts, ThreeVersions, ReadingInv, [Next]_vars
  PROVE  ReadingInv'
<1>1. BodyInv'
  BY NextKeepsBodyInv DEF ReadingInv
<1>2. CASE UNCHANGED vars
  BY <1>1, <1>2 DEF ReadingInv, WritingLeads, ReadingLeads, ContextsAgree, ItemsSuit,
     AcceptedIsRead, Start, End, Worker, WorkerContext, writer, reader, vars, writerVars,
     readerVars, TypeSuits, ItemSuits
<1>3. ASSUME NEW newWriter \in BOOLEAN, NEW clearReader \in BOOLEAN,
             NextMessage(newWriter, clearReader)
      PROVE  ReadingInv'
  <2>1. phase' = "idle" /\ agenda' = <<>> /\ status' \in {"none", "ready"}
    BY <1>3 DEF NextMessage, Forget
  <2> QED  BY <1>1, <2>1, BetweenKeepsReading
<1>4. ASSUME NEW call \in Calls, SetUp(call)
      PROVE  ReadingInv'
  <2>1. status = "none" /\ status' = "ready" /\ UNCHANGED <<phase, agenda>>
    BY <1>4 DEF SetUp
  <2>2. phase = "idle" /\ agenda = <<>>
    BY <2>1 DEF ReadingInv, BodyInv, Typed, TypeOK, InOrder
  <2> QED  BY <1>1, <2>1, <2>2, BetweenKeepsReading
<1>5. CASE WriterNext
  BY <1>5, SerializeKeepsReading, ToOldStructKeepsReading, SerializeStructKeepsReading,
     SerializeMemberKeepsReading, SerializeNumberKeepsReading, SerializeArrayKeepsReading,
     SerializeElementKeepsReading, SerializePointerKeepsReading, EndOfWritingKeepsReading
     DEF WriterNext
<1>6. CASE ReaderNext
  BY <1>6, DeserializeKeepsReading, FromOldStructKeepsReading,
     ConvertToUpperVersionKeepsReading, DeserializeStructKeepsReading,
     DeserializeMemberKeepsReading, DeserializeNumberKeepsReading, DeserializeArrayKeepsReading,
     DeserializeElementKeepsReading, DeserializePointerKeepsReading, EndOfReadingKeepsReading
     DEF ReaderNext
<1> QED  BY <1>2, <1>3, <1>4, <1>5, <1>6 DEF Next

(* If the two builds of each pair have one history, the flags of a struct  *)
(* contain those of its parts and no struct has more than three versions,  *)
(* a message that serialize and deserialize both accepted is read to its   *)
(* end. BodyProcessor and VersionConverter refuse nothing half way, for    *)
(* any structs, chains of versions and graphs of pointers, but a pointer   *)
(* the writer's context does not allow for, and for want of memory.        *)
THEOREM AcceptedMessagesAreRead ==
  ASSUME OneHistory, FlagsOfParts, ThreeVersions
  PROVE  Spec => []AcceptedIsRead
<1>1. Init => ReadingInv
  BY InitIsReading
<1>2. ReadingInv /\ [Next]_vars => ReadingInv'
  BY NextKeepsReading
<1>3. ReadingInv => AcceptedIsRead
  BY DEF ReadingInv
<1> QED  BY <1>1, <1>2, <1>3, PTL DEF Spec
=============================================================================

----------------------------- MODULE BodyProofs -----------------------------
(***************************************************************************)
(* What holds of BodyProcessing for all builds, graphs and calls: all that *)
(* it keeps has its type, and the reader's pointers outlive the structs of *)
(* other versions that are made while it reads.                            *)
(***************************************************************************)
EXTENDS BodyInvariant, DataInduction, SequenceTheorems

-----------------------------------------------------------------------------
(* Sequences and places.                                                   *)

(* A sequence is one of its elements.                                      *)
LEMMA SequenceOfElements ==
  ASSUME NEW s, IsSequence(s)
  PROVE  s \in Seq(Elements(s)) /\ DOMAIN s = 1..Len(s)
<1>1. s \in [1..Len(s) -> Elements(s)]
  BY DEF IsSequence, Elements
<1> QED  BY <1>1 DEF IsSequence

(* A sequence of some set is a sequence, and has its elements there.       *)
LEMMA SequenceIs ==
  ASSUME NEW S, NEW s \in Seq(S)
  PROVE  IsSequence(s) /\ Elements(s) \subseteq S /\ ToSet(s) = Elements(s)
<1>1. Len(s) \in Nat /\ DOMAIN s = 1..Len(s) /\ \A i \in 1..Len(s) : s[i] \in S
  OBVIOUS
<1>2. s = [i \in 1..Len(s) |-> s[i]]
  BY <1>1
<1> QED  BY <1>1, <1>2 DEF IsSequence, Elements, ToSet

(* The concatenation of two sequences has the elements of both.            *)
LEMMA Concatenated ==
  ASSUME NEW s, NEW t, IsSequence(s), IsSequence(t)
  PROVE  /\ IsSequence(s \o t) /\ Len(s \o t) = Len(s) + Len(t)
         /\ \A i \in 1..Len(s \o t) : (s \o t)[i] = IF i <= Len(s) THEN s[i] ELSE t[i - Len(s)]
         /\ Elements(s \o t) = Elements(s) \cup Elements(t)
<1> DEFINE S == Elements(s) \cup Elements(t)
<1>1. s \in Seq(S) /\ t \in Seq(S)
  BY SequenceOfElements
<1>2. s \o t \in Seq(S) /\ Len(s \o t) = Len(s) + Len(t) /\ Len(s) \in Nat /\ Len(t) \in Nat
  BY <1>1
<1>3. \A i \in 1..Len(s \o t) : (s \o t)[i] = IF i <= Len(s) THEN s[i] ELSE t[i - Len(s)]
  BY <1>1, <1>2
<1>4. \A i \in 1..Len(s) : i \in 1..Len(s \o t) /\ (s \o t)[i] = s[i]
  BY <1>2, <1>3
<1>5. \A i \in 1..Len(t) : Len(s) + i \in 1..Len(s \o t) /\ (s \o t)[Len(s) + i] = t[i]
  BY <1>2, <1>3
<1>6. \A i \in 1..Len(s \o t) : i \in 1..Len(s) \/ i - Len(s) \in 1..Len(t)
  BY <1>2
<1>7. ASSUME NEW x \in Elements(s \o t)
      PROVE  x \in S
  <2>1. PICK i \in 1..Len(s \o t) : x = (s \o t)[i]
    BY DEF Elements
  <2>2. CASE i \in 1..Len(s)
    BY <1>4, <2>1, <2>2 DEF Elements
  <2>3. CASE i - Len(s) \in 1..Len(t)
    <3>1. x = t[i - Len(s)]
      BY <1>2, <1>3, <2>1, <2>3
    <3> QED  BY <2>3, <3>1 DEF Elements
  <2> QED  BY <1>6, <2>2, <2>3
<1>8. S \subseteq Elements(s \o t)
  BY <1>4, <1>5 DEF Elements
<1>9. Elements(s \o t) = S
  BY <1>7, <1>8
<1> QED  BY <1>2, <1>3, <1>9, SequenceIs

(* What is left of a sequence without its first element.                   *)
LEMMA TailElements ==
  ASSUME NEW s, IsSequence(s), s # <<>>
  PROVE  /\ IsSequence(Tail(s)) /\ Elements(Tail(s)) \subseteq Elements(s)
         /\ Head(s) \in Elements(s) /\ Len(s) >= 1 /\ s = <<Head(s)>> \o Tail(s)
         /\ Len(Tail(s)) = Len(s) - 1
<1>1. s \in Seq(Elements(s))
  BY SequenceOfElements
<1>2. Tail(s) \in Seq(Elements(s)) /\ Head(s) \in Elements(s) /\ Len(s) >= 1
  BY <1>1, HeadTailProperties
<1>3. Len(Tail(s)) = Len(s) - 1
  BY <1>1, <1>2
<1>4. s = <<Head(s)>> \o Tail(s)
  BY <1>1, <1>2
<1> QED  BY <1>2, <1>3, <1>4, SequenceIs

(* A place in an object, and the places of its parts.                      *)
LEMMA PartIsPlace ==
  ASSUME NEW p, NEW name, NEW j, IsPlace(p)
  PROVE  IsPlace(Part(p, name, j)) /\ Part(p, name, j)[1] = p[1]
<1>1. IsSequence(<<name, j>>) /\ IsSequence(p) /\ Len(p) \in Nat /\ p # <<>>
  BY DEF IsPlace, IsSequence
<1>2. Len(p) # 0
  BY <1>1, SequenceOfElements
<1>3. /\ IsSequence(p \o <<name, j>>) /\ Len(p \o <<name, j>>) = Len(p) + 2
      /\ \A i \in 1..Len(p \o <<name, j>>) :
           (p \o <<name, j>>)[i] = IF i <= Len(p) THEN p[i] ELSE <<name, j>>[i - Len(p)]
  BY <1>1, Concatenated
<1>4. (p \o <<name, j>>)[1] = p[1] /\ p \o <<name, j>> # <<>>
  BY <1>1, <1>2, <1>3
<1> QED  BY <1>3, <1>4 DEF IsPlace, Part

(* An object itself is a place.                                            *)
LEMMA ObjectIsPlace ==
  ASSUME NEW object
  PROVE  IsPlace(<<object>>) /\ <<object>>[1] = object
BY DEF IsPlace, IsSequence

-----------------------------------------------------------------------------
(* Sequences of sequences.                                                 *)

(* What the first n of them give, one after another                        *)
FlattenedBefore(seqs, F) ==
  [i \in 1..Len(seqs) |-> IF i = 1 THEN seqs[i] ELSE F[i - 1] \o seqs[i]]

(* The definition of flatten by what stands before makes a function.       *)
LEMMA FlattenedExists ==
  ASSUME NEW seqs, IsSequence(seqs)
  PROVE  \E F : F = FlattenedBefore(seqs, F)
<1> DEFINE N == Len(seqs)
           Good(F, m) == \A i \in 1..m : F[i] = IF i = 1 THEN seqs[i] ELSE F[i - 1] \o seqs[i]
           M == {m \in Nat : m <= N => \E F : F = [i \in 1..m |-> F[i]] /\ Good(F, m)}
<1>1. N \in Nat
  BY DEF IsSequence
<1>2. 0 \in M
  <2>1. \E F : F = [i \in 1..0 |-> F[i]] /\ Good(F, 0)
    <3> WITNESS <<>>
    <3> QED  OBVIOUS
  <2> QED  BY <2>1
<1>3. ASSUME NEW m \in Nat, m \in M
      PROVE  m + 1 \in M
  <2> SUFFICES ASSUME m + 1 <= N
               PROVE  \E F : F = [i \in 1..(m + 1) |-> F[i]] /\ Good(F, m + 1)
    OBVIOUS
  <2>1. PICK f : f = [i \in 1..m |-> f[i]] /\ Good(f, m)
    BY <1>1, <1>3
  <2> DEFINE g == [i \in 1..(m + 1) |->
                     IF i = m + 1 THEN IF i = 1 THEN seqs[i] ELSE f[i - 1] \o seqs[i] ELSE f[i]]
  <2>2. ASSUME NEW i \in 1..(m + 1)
        PROVE  g[i] = IF i = 1 THEN seqs[i] ELSE g[i - 1] \o seqs[i]
    <3>1. CASE i = m + 1
      BY <3>1
    <3>2. CASE i \in 1..m
      <4>1. g[i] = f[i] /\ (i # 1 => g[i - 1] = f[i - 1])
        BY <3>2
      <4>2. f[i] = IF i = 1 THEN seqs[i] ELSE f[i - 1] \o seqs[i]
        BY <2>1, <3>2
      <4> QED  BY <4>1, <4>2
    <3> QED  BY <3>1, <3>2
  <2>3. g = [i \in 1..(m + 1) |-> g[i]]
    OBVIOUS
  <2> HIDE DEF g
  <2> QED  BY <2>2, <2>3
<1>4. N \in M
  <2> HIDE DEF M
  <2> QED  BY <1>1, <1>2, <1>3, NumbersByInduction
<1>5. PICK F : F = [i \in 1..N |-> F[i]] /\ Good(F, N)
  BY <1>1, <1>4
<1>6. F = FlattenedBefore(seqs, F)
  BY <1>5 DEF FlattenedBefore
<1> QED  BY <1>6

(* flatten gives what its recursive function says of each prefix.          *)
LEMMA FlattenedBy ==
  ASSUME NEW seqs, IsSequence(seqs), seqs # <<>>
  PROVE  \E F : /\ FlattenSeq(seqs) = F[Len(seqs)]
                /\ \A i \in 1..Len(seqs) :
                     F[i] = IF i = 1 THEN seqs[i] ELSE F[i - 1] \o seqs[i]
<1> DEFINE R(F) == F = FlattenedBefore(seqs, F)
           G == CHOOSE F : R(F)
<1>1. Len(seqs) # 0
  BY SequenceOfElements
<1>2. FlattenSeq(seqs) = G[Len(seqs)]
  BY <1>1 DEF FlattenSeq, FlattenedBefore
<1>3. \E F : R(F)
  BY FlattenedExists
<1> HIDE DEF R
<1>4. R(G)
  BY <1>3
<1> HIDE DEF G
<1>5. G = FlattenedBefore(seqs, G)
  BY <1>4 DEF R
<1>6. \A i \in 1..Len(seqs) : G[i] = IF i = 1 THEN seqs[i] ELSE G[i - 1] \o seqs[i]
  BY <1>5 DEF FlattenedBefore
<1> QED  BY <1>2, <1>6

(* The sequences one after another have the elements they have.            *)
LEMMA Flattened ==
  ASSUME NEW seqs, IsSequence(seqs), NEW S,
         \A i \in 1..Len(seqs) : IsSequence(seqs[i]) /\ Elements(seqs[i]) \subseteq S
  PROVE  IsSequence(FlattenSeq(seqs)) /\ Elements(FlattenSeq(seqs)) \subseteq S
<1>1. Len(seqs) \in Nat
  BY DEF IsSequence
<1>2. CASE seqs = <<>>
  BY <1>2 DEF FlattenSeq, IsSequence, Elements
<1>3. CASE seqs # <<>>
  <2>1. PICK F : /\ FlattenSeq(seqs) = F[Len(seqs)]
                 /\ \A i \in 1..Len(seqs) :
                      F[i] = IF i = 1 THEN seqs[i] ELSE F[i - 1] \o seqs[i]
    BY <1>3, FlattenedBy
  <2> DEFINE Good(m) == IsSequence(F[m]) /\ Elements(F[m]) \subseteq S
             M == {m \in Nat : m \in 1..Len(seqs) => Good(m)}
  <2>2. 0 \in M
    OBVIOUS
  <2>3. ASSUME NEW m \in Nat, m \in M
        PROVE  m + 1 \in M
    <3> SUFFICES ASSUME m + 1 \in 1..Len(seqs)
                 PROVE  Good(m + 1)
      OBVIOUS
    <3>1. IsSequence(seqs[m + 1]) /\ Elements(seqs[m + 1]) \subseteq S
      OBVIOUS
    <3>2. CASE m = 0
      BY <2>1, <3>1, <3>2
    <3>3. CASE m # 0
      <4>1. Good(m)
        BY <1>1, <2>3, <3>3
      <4>2. F[m + 1] = F[m] \o seqs[m + 1]
        <5>1. m + 1 # 1 /\ (m + 1) - 1 = m
          BY <3>3
        <5> QED  BY <2>1, <5>1
      <4> QED  BY <3>1, <4>1, <4>2, Concatenated
    <3> QED  BY <3>2, <3>3
  <2> HIDE DEF M
  <2>4. Len(seqs) \in M
    BY <1>1, <2>2, <2>3, NumbersByInduction
  <2>5. Len(seqs) \in 1..Len(seqs)
    BY <1>1, <1>3, SequenceOfElements
  <2> QED  BY <2>1, <2>4, <2>5 DEF M
<1> QED  BY <1>2, <1>3

-----------------------------------------------------------------------------
(* The versions of a struct.                                               *)

Descending(s) == s \in Seq(Nat) /\ \A i, j \in DOMAIN s : i < j => s[i] > s[j]

(* The first element that is at most c                                     *)
AtMost(s, c) == {i \in 1..Len(s) : s[i] <= c}
FirstAtMost(s, c) == IF AtMost(s, c) # {} THEN Min(AtMost(s, c)) ELSE 0

(* The private versions of a struct go down from the latest to the origin. *)
LEMMA PrivateVersions ==
  ASSUME NEW b, IsBuild(b), NEW T \in DOMAIN b.private
  PROVE  LET s == b.private[T]
         IN  /\ Descending(s) /\ Len(s) \in Nat /\ Len(s) >= 1 /\ DOMAIN s = 1..Len(s)
             /\ getLatestPrivateVersion(b, T) = s[1]
             /\ getOriginPrivateVersion(b, T) = s[Len(s)]
             /\ \A i \in 1..Len(s) : s[i] \in ToSet(s) /\ s[i] \in Nat
             /\ \A v \in ToSet(s) : \E i \in 1..Len(s) : v = s[i]
             /\ \A v \in ToSet(s) : v \in Nat /\ s[Len(s)] <= v /\ v <= s[1]
<1> DEFINE s == b.private[T]
<1>1. s \in Seq(Nat) /\ s # <<>> /\ Descending(s)
  BY DEF IsBuild, Descending
<1>2. Len(s) \in Nat /\ Len(s) >= 1 /\ DOMAIN s = 1..Len(s)
  BY <1>1
<1>3. getLatestPrivateVersion(b, T) = s[1] /\ getOriginPrivateVersion(b, T) = s[Len(s)]
  BY <1>1, <1>2 DEF getLatestPrivateVersion, getOriginPrivateVersion, Last
<1>4. ToSet(s) = {s[i] : i \in 1..Len(s)}
  BY <1>2 DEF ToSet
<1>5. \A i \in 1..Len(s) : s[i] \in Nat
  BY <1>1, <1>2
<1>6. ASSUME NEW v \in ToSet(s)
      PROVE  v \in Nat /\ s[Len(s)] <= v /\ v <= s[1]
  <2>1. PICK i \in 1..Len(s) : v = s[i]
    BY <1>4
  <2> HIDE DEF s
  <2>2. 1 \in DOMAIN s /\ Len(s) \in DOMAIN s /\ i \in DOMAIN s
    BY <1>2
  <2>3. (1 < i => s[1] > s[i]) /\ (i < Len(s) => s[i] > s[Len(s)])
    BY <1>1, <2>2 DEF Descending
  <2>4. s[1] \in Nat /\ s[i] \in Nat /\ s[Len(s)] \in Nat
    BY <1>2, <1>5, <2>2
  <2>5. (i = 1 \/ 1 < i) /\ (i = Len(s) \/ i < Len(s))
    <3>1. ASSUME NEW n \in Nat, NEW k \in 1..n
          PROVE  (k = 1 \/ 1 < k) /\ (k = n \/ k < n)
      OBVIOUS
    <3> QED  BY <1>2, <3>1
  <2> QED  BY <2>1, <2>3, <2>4, <2>5
<1> QED  BY <1>1, <1>2, <1>3, <1>4, <1>5, <1>6

(* In a descending sequence what follows the first element that is at most *)
(* c is at most c, too.                                                    *)
LEMMA FirstAtMostIs ==
  ASSUME NEW s, Descending(s), NEW c \in Nat
  PROVE  /\ FirstAtMost(s, c) = 0 => \A i \in 1..Len(s) : s[i] > c
         /\ FirstAtMost(s, c) # 0 =>
              /\ FirstAtMost(s, c) \in 1..Len(s)
              /\ s[FirstAtMost(s, c)] <= c
              /\ \A i \in 1..Len(s) : s[i] <= c <=> FirstAtMost(s, c) <= i
         /\ (\E i \in 1..Len(s) : s[i] <= c) => FirstAtMost(s, c) # 0
<1> DEFINE I == AtMost(s, c)
<1>1. s \in Seq(Nat) /\ Len(s) \in Nat /\ DOMAIN s = 1..Len(s)
      /\ \A i \in 1..Len(s) : s[i] \in Nat
  BY DEF Descending
<1>2. CASE I = {}
  <2>1. FirstAtMost(s, c) = 0
    BY <1>2 DEF FirstAtMost
  <2>2. \A i \in 1..Len(s) : ~(s[i] <= c)
    BY <1>2 DEF AtMost
  <2> QED  BY <1>1, <2>1, <2>2
<1>3. CASE I # {}
  <2>1. I \in SUBSET Nat
    BY <1>1 DEF AtMost
  <2>2. \E n \in I : \A m \in I : n <= m
    BY <1>3, <2>1, LeastNumber
  <2> DEFINE n == Min(I)
  <2>3. n \in I /\ \A m \in I : n <= m
    BY <2>2 DEF Min
  <2>4. FirstAtMost(s, c) = n
    BY <1>3 DEF FirstAtMost
  <2> HIDE DEF n
  <2>5. n \in 1..Len(s) /\ s[n] <= c
    BY <2>3 DEF AtMost
  <2>6. ASSUME NEW i \in 1..Len(s)
        PROVE  s[i] <= c <=> n <= i
    <3>1. s[i] <= c => i \in I
      BY DEF AtMost
    <3>2. n < i => s[n] > s[i]
      BY <1>1, <2>5 DEF Descending
    <3> QED  BY <1>1, <2>3, <2>5, <3>1, <3>2
  <2> QED  BY <2>4, <2>5, <2>6
<1> QED  BY <1>2, <1>3

(* The private versions up to v are the rest of the list from v on.        *)
LEMMA VersionsUpTo ==
  ASSUME NEW b, IsBuild(b), NEW T \in DOMAIN b.private, NEW v \in ToSet(b.private[T])
  PROVE  LET s == b.private[T]
         IN  \E i \in 1..Len(s) :
               /\ s[i] = v
               /\ getPrivateVersions(b, T, v) = SubSeq(s, i, Len(s))
<1> DEFINE s == b.private[T]
<1>1. Descending(s) /\ v \in Nat /\ Len(s) \in Nat /\ DOMAIN s = 1..Len(s)
      /\ \A i \in 1..Len(s) : s[i] \in Nat
  BY PrivateVersions
<1>2. PICK i \in 1..Len(s) : v = s[i]
  BY PrivateVersions
<1> DEFINE k == FirstAtMost(s, v)
<1>3. k \in 1..Len(s) /\ k <= i /\ s[k] <= v
  BY <1>1, <1>2, FirstAtMostIs
<1>4. k = i
  BY <1>1, <1>2, <1>3 DEF Descending
<1>5. getPrivateVersions(b, T, v) = SubSeq(s, k, Len(s))
  BY DEF getPrivateVersions, SelectInSeq, FirstAtMost, AtMost
<1> QED  BY <1>2, <1>4, <1>5

(* The best compatible version is the greatest that is at most that of the *)
(* struct and at most c.                                                   *)
LEMMA BestVersion ==
  ASSUME NEW b, IsBuild(b), NEW T \in DOMAIN b.private, NEW v \in ToSet(b.private[T]),
         NEW c \in Nat, getOriginPrivateVersion(b, T) <= c
  PROVE  LET best == getBestCompatInterfaceVersion(b, T, v, c)
         IN  /\ best \in ToSet(b.private[T]) /\ best <= v /\ best <= c
             /\ \A p \in ToSet(b.private[T]) : p <= v /\ p <= c => p <= best
             /\ v <= c => best = v
<1> DEFINE s == b.private[T]
           best == getBestCompatInterfaceVersion(b, T, v, c)
<1>1. Descending(s) /\ v \in Nat /\ Len(s) \in Nat /\ Len(s) >= 1 /\ DOMAIN s = 1..Len(s)
      /\ \A i \in 1..Len(s) : s[i] \in Nat /\ s[i] \in ToSet(s)
  BY PrivateVersions
<1>2. PICK i \in 1..Len(s) : s[i] = v /\ getPrivateVersions(b, T, v) = SubSeq(s, i, Len(s))
  BY VersionsUpTo
<1> DEFINE u == SubSeq(s, i, Len(s))
<1>3. u \in Seq(Nat) /\ Len(u) = Len(s) - i + 1 /\ DOMAIN u = 1..Len(u)
      /\ \A j \in 1..Len(u) : u[j] = s[i + j - 1]
  BY <1>1, <1>2 DEF Descending
<1> HIDE DEF u
<1>4. Descending(u)
  <2>1. ASSUME NEW j \in 1..Len(u), NEW k \in 1..Len(u), j < k
        PROVE  u[j] > u[k]
    <3>1. i + j - 1 \in 1..Len(s) /\ i + k - 1 \in 1..Len(s) /\ i + j - 1 < i + k - 1
      BY <1>1, <1>3, <2>1
    <3>2. s[i + j - 1] > s[i + k - 1]
      BY <1>1, <3>1 DEF Descending
    <3> QED  BY <1>3, <3>2
  <2> QED  BY <1>3, <2>1 DEF Descending
<1> DEFINE k == FirstAtMost(u, c)
<1>5. best = IF k = 0 THEN Undefined ELSE u[k]
  BY <1>2 DEF getBestCompatInterfaceVersion, SelectInSeq, FirstAtMost, AtMost, u
<1>6. Len(u) \in 1..Len(u) /\ u[Len(u)] <= c
  <2>1. Len(u) \in 1..Len(u) /\ i + Len(u) - 1 = Len(s)
    BY <1>1, <1>3
  <2>2. s[Len(s)] <= c
    BY PrivateVersions, Zenon
  <2> QED  BY <1>3, <2>1, <2>2
<1>7. k \in 1..Len(u) /\ u[k] <= c /\ \A j \in 1..Len(u) : u[j] <= c <=> k <= j
  <2>1. k # 0
    BY <1>4, <1>6, FirstAtMostIs
  <2> QED  BY <1>4, <2>1, FirstAtMostIs
<1> HIDE DEF k, best, s
<1>8. best = u[k] /\ u[k] = s[i + k - 1] /\ i + k - 1 \in 1..Len(s)
  <2>1. k # 0 /\ k \in Nat /\ k >= 1 /\ k <= Len(s) - i + 1
    BY <1>1, <1>3, <1>7
  <2> QED  BY <1>1, <1>3, <1>5, <1>7, <2>1
<1>9. u[1] = v /\ 1 \in 1..Len(u)
  <2>1. 1 \in 1..Len(u) /\ i + 1 - 1 = i
    BY <1>1, <1>3
  <2>2. u[1] = s[i + 1 - 1]
    BY <1>3, <2>1
  <2> QED  BY <1>2, <2>1, <2>2 DEF s
<1>10. best \in ToSet(s) /\ best <= c /\ best <= v
  <2>1. k # 1 => u[1] > u[k]
    BY <1>3, <1>4, <1>7, <1>9 DEF Descending
  <2>2. k # 1 => u[1] >= best
    BY <1>1, <1>3, <1>8, <1>9, <2>1
  <2> QED  BY <1>1, <1>7, <1>8, <1>9, <2>2
<1>11. v <= c => best = v
  <2>1. v <= c => k <= 1
    BY <1>7, <1>9
  <2>2. k <= 1 => k = 1
    BY <1>7
  <2> QED  BY <1>8, <1>9, <2>1, <2>2
<1>12. ASSUME NEW p \in ToSet(s), p <= v, p <= c
       PROVE  p <= best
  <2>1. PICK j \in 1..Len(s) : p = s[j]
    BY PrivateVersions DEF s
  <2>2. i <= j
    BY <1>1, <1>2, <1>12, <2>1 DEF Descending
  <2>3. j - i + 1 \in 1..Len(u) /\ u[j - i + 1] = p
    <3>1. j - i + 1 \in 1..Len(u) /\ i + (j - i + 1) - 1 = j
      BY <1>1, <1>3, <2>1, <2>2
    <3>2. u[j - i + 1] = s[i + (j - i + 1) - 1]
      BY <1>3, <3>1
    <3> QED  BY <2>1, <3>1, <3>2
  <2>4. k <= j - i + 1
    BY <1>7, <1>12, <2>3
  <2>5. k < j - i + 1 => u[k] > u[j - i + 1]
    BY <1>3, <1>4, <1>7, <2>3 DEF Descending
  <2>6. k = j - i + 1 \/ k < j - i + 1
    BY <1>7, <2>3, <2>4
  <2>7. u[k] \in Nat /\ u[j - i + 1] \in Nat
    <3>1. \A m \in 1..Len(u) : u[m] \in Nat
      BY <1>4 DEF Descending
    <3> QED  BY <1>7, <2>3, <3>1
  <2> QED  BY <1>8, <2>3, <2>5, <2>6, <2>7
<1> QED  BY <1>10, <1>11, <1>12 DEF best, s

(* Where two versions stand in the list of private versions.               *)
LEMMA TwoVersions ==
  ASSUME NEW s, Descending(s), NEW i \in 1..Len(s), NEW j \in 1..Len(s), s[j] < s[i]
  PROVE  i < j
<1>1. Len(s) \in Nat /\ DOMAIN s = 1..Len(s) /\ s[i] \in Nat /\ s[j] \in Nat
  BY DEF Descending
<1>2. j < i => s[j] > s[i]
  BY <1>1 DEF Descending
<1>3. i # j
  BY <1>1
<1> QED  BY <1>1, <1>2, <1>3

(* The versions of the legacy structs of a struct of version v             *)
Legacy(b, T, v) == Tail(getPrivateVersions(b, T, v))

LegacyAfter(s, N, i, legacy) ==
  /\ legacy \in Seq(Nat) /\ Len(legacy) = N - i /\ DOMAIN legacy = 1..(N - i)
  /\ \A k \in 1..(N - i) : i + k \in 1..N /\ legacy[k] = s[i + k]

(* The legacy structs of a version are those that stand after it.          *)
LEMMA LegacyVersions ==
  ASSUME NEW b, IsBuild(b), NEW T \in DOMAIN b.private, NEW v \in ToSet(b.private[T]),
         NEW s, s = b.private[T], NEW N, N = Len(s), NEW legacy, legacy = Legacy(b, T, v)
  PROVE  \E i \in 1..N : s[i] = v /\ LegacyAfter(s, N, i, legacy)
<1>1. Descending(s) /\ N \in Nat /\ DOMAIN s = 1..N
  BY PrivateVersions
<1>2. PICK i \in 1..N : s[i] = v /\ getPrivateVersions(b, T, v) = SubSeq(s, i, N)
  BY VersionsUpTo
<1> DEFINE u == SubSeq(s, i, N)
<1>3. s \in Seq(Nat) /\ i \in Nat /\ i >= 1 /\ i <= N
  BY <1>1 DEF Descending
<1>4. u \in Seq(Nat) /\ Len(u) = N - i + 1 /\ \A j \in 1..Len(u) : u[j] = s[i + j - 1]
  BY <1>1, <1>3
<1>5. Legacy(b, T, v) = Tail(u)
  BY <1>2 DEF Legacy
<1> HIDE DEF u
<1>6. u # <<>>
  BY <1>1, <1>3, <1>4
<1>7. Tail(u) \in Seq(Nat) /\ Len(Tail(u)) = N - i
      /\ \A k \in 1..(N - i) : Tail(u)[k] = u[k + 1]
  <2>1. Len(Tail(u)) = Len(u) - 1 /\ Len(u) \in Nat
    BY <1>4, <1>6
  <2> QED  BY <1>1, <1>3, <1>4, <1>6, <2>1
<1>8. ASSUME NEW k \in 1..(N - i)
      PROVE  i + k \in 1..N /\ Tail(u)[k] = s[i + k]
  <2>1. k + 1 \in 1..(N - i + 1) /\ i + (k + 1) - 1 = i + k /\ i + k \in 1..N
    <3>1. N \in Nat /\ i \in Nat /\ k \in Nat /\ 1 <= k /\ k <= N - i /\ i <= N
      BY <1>1, <1>3
    <3> QED  BY <3>1
  <2>2. u[k + 1] = s[i + (k + 1) - 1]
    BY <1>4, <2>1
  <2> QED  BY <1>7, <2>1, <2>2
<1>9. DOMAIN Tail(u) = 1..(N - i)
  BY <1>7
<1>10. legacy = Tail(u)
  BY <1>5
<1>11. PICK t : t = Tail(u)
  OBVIOUS
<1>12. LegacyAfter(s, N, i, t)
  BY ONLY <1>7, <1>8, <1>9, <1>11 DEF LegacyAfter
<1> QED  BY ONLY <1>2, <1>10, <1>11, <1>12

(* Two versions in the list of private versions, and the legacy structs of *)
(* the later one.                                                          *)
LaterAndEarlier(b, T, v, target, s, N, i, j, legacy) ==
  /\ s = b.private[T] /\ N = Len(s) /\ legacy = Legacy(b, T, v)
  /\ Descending(s) /\ DOMAIN s = 1..N /\ \A k \in 1..N : s[k] \in Nat
  /\ N \in Nat /\ i \in 1..N /\ j \in 1..N /\ i < j /\ s[i] = v /\ s[j] = target
  /\ LegacyAfter(s, N, i, legacy)

(* An earlier version stands among the legacy structs of a later one.      *)
LEMMA TwoVersionsOf ==
  ASSUME NEW b, IsBuild(b), NEW T \in DOMAIN b.private, NEW v \in ToSet(b.private[T]),
         NEW target \in ToSet(b.private[T]), target < v
  PROVE  \E s, N, i, j, legacy : LaterAndEarlier(b, T, v, target, s, N, i, j, legacy)
<1>1. PICK s, N, legacy : s = b.private[T] /\ N = Len(s) /\ legacy = Legacy(b, T, v)
  <2> WITNESS b.private[T], Len(b.private[T]), Legacy(b, T, v)
  <2> QED  OBVIOUS
<1>2. Descending(s) /\ N \in Nat /\ DOMAIN s = 1..N /\ \A k \in 1..N : s[k] \in Nat
  BY <1>1, PrivateVersions
<1>3. PICK i \in 1..N : s[i] = v /\ LegacyAfter(s, N, i, legacy)
  BY <1>1, LegacyVersions
<1>4. PICK j \in 1..N : s[j] = target
  BY <1>1, PrivateVersions
<1>5. i < j
  BY <1>1, <1>2, <1>3, <1>4, TwoVersions
<1> WITNESS s, N, i, j, legacy
<1> QED  BY <1>1, <1>2, <1>3, <1>4, <1>5 DEF LaterAndEarlier

(* The versions below one, down to another                                 *)
VersionsBetween(b, T, target, v) == {p \in ToSet(b.private[T]) : target <= p /\ p < v}

Spans(s, N, i, j, chain) ==
  /\ Descending(s) /\ N = Len(s) /\ N \in Nat /\ DOMAIN s = 1..N
  /\ \A k \in 1..N : s[k] \in Nat
  /\ i \in 1..N /\ j \in 1..N /\ i < j
  /\ IsSequence(chain) /\ Len(chain) = j - i
  /\ \A k \in 1..(j - i) : \E m \in (i + 1)..j : chain[k] = s[m]
  /\ \A m \in (i + 1)..j : \E k \in 1..(j - i) : chain[k] = s[m]

(* They are those that stand between the two.                              *)
LEMMA BetweenThem ==
  ASSUME NEW s, NEW N, NEW i, NEW j, NEW chain, Spans(s, N, i, j, chain)
  PROVE  Elements(chain) = {p \in ToSet(s) : s[j] <= p /\ p < s[i]}
<1> USE DEF Spans
<1>1. ASSUME NEW p \in Elements(chain)
      PROVE  p \in ToSet(s) /\ s[j] <= p /\ p < s[i]
  <2>1. PICK k \in 1..(j - i) : p = chain[k]
    BY DEF Elements
  <2>2. PICK m \in (i + 1)..j : p = s[m]
    BY <2>1
  <2>3. m \in 1..N /\ i < m /\ (m = j \/ m < j)
    OBVIOUS
  <2>4. s[m] \in Nat /\ s[j] \in Nat /\ s[i] \in Nat
    BY <2>3
  <2>5. s[i] > s[m] /\ (m < j => s[m] > s[j])
    BY <2>3 DEF Descending
  <2>6. p \in ToSet(s)
    BY <2>2, <2>3 DEF ToSet
  <2> QED  BY <2>2, <2>3, <2>4, <2>5, <2>6
<1>2. ASSUME NEW p \in ToSet(s), s[j] <= p, p < s[i]
      PROVE  p \in Elements(chain)
  <2>1. PICK m \in 1..N : p = s[m]
    BY DEF ToSet
  <2>2. s[m] \in Nat /\ s[j] \in Nat /\ s[i] \in Nat
    OBVIOUS
  <2>3. (m < i => s[m] > s[i]) /\ (j < m => s[j] > s[m])
    BY DEF Descending
  <2>4. m \in (i + 1)..j
    BY <1>2, <2>1, <2>2, <2>3
  <2>5. PICK k \in 1..(j - i) : chain[k] = s[m]
    BY <2>4
  <2> QED  BY <2>1, <2>5 DEF Elements
<1> QED  BY <1>1, <1>2

(* toOldStruct lists the versions below the struct's down to that of the   *)
(* message.                                                                *)
LEMMA VersionsDown ==
  ASSUME NEW b, IsBuild(b), NEW T \in DOMAIN b.private, NEW v \in ToSet(b.private[T]),
         NEW target \in ToSet(b.private[T]), target < v
  PROVE  /\ IsSequence(ToVersion(b, T, v, target)) /\ ToVersion(b, T, v, target) # <<>>
         /\ Last(ToVersion(b, T, v, target)) = target
         /\ Elements(ToVersion(b, T, v, target)) = VersionsBetween(b, T, target, v)
<1>1. PICK s, N, i, j, legacy : LaterAndEarlier(b, T, v, target, s, N, i, j, legacy)
  BY TwoVersionsOf
<1>2. /\ s = b.private[T] /\ N = Len(s) /\ legacy = Legacy(b, T, v)
      /\ Descending(s) /\ DOMAIN s = 1..N /\ \A k \in 1..N : s[k] \in Nat
      /\ s[i] = v /\ s[j] = target
      /\ legacy \in Seq(Nat) /\ Len(legacy) = N - i /\ DOMAIN legacy = 1..(N - i)
      /\ \A k \in 1..(N - i) : i + k \in 1..N /\ legacy[k] = s[i + k]
  BY <1>1 DEF LaterAndEarlier, LegacyAfter
<1>3. N \in Nat /\ i \in Nat /\ j \in Nat /\ 1 <= i /\ i < j /\ j <= N
  BY <1>1 DEF LaterAndEarlier
<1>4. target \in Nat
  BY <1>2, <1>3
<1> DEFINE last == FirstAtMost(legacy, target)
<1>5. ToVersion(b, T, v, target) = SubSeq(legacy, 1, last)
  <2>1. \A k \in 1..Len(legacy) : legacy[k] \in Nat
    BY <1>2, <1>3
  <2>2. \A k \in 1..Len(legacy) : ~(legacy[k] > target) <=> legacy[k] <= target
    BY <1>4, <2>1
  <2>3. {k \in 1..Len(legacy) : ~(legacy[k] > target)} = AtMost(legacy, target)
    BY <2>2 DEF AtMost
  <2>4. Tail(getPrivateVersions(b, T, v)) = legacy
    BY <1>2, <1>3 DEF Legacy
  <2> QED  BY <2>3, <2>4 DEF ToVersion, SelectInSeq, FirstAtMost
<1>6. Descending(legacy)
  <2>1. ASSUME NEW k \in 1..(N - i), NEW m \in 1..(N - i), k < m
        PROVE  legacy[k] > legacy[m]
    <3>1. i + k \in 1..N /\ i + m \in 1..N /\ i + k < i + m
      BY <1>3, <2>1
    <3>2. s[i + k] > s[i + m]
      BY <1>2, <1>3, <3>1 DEF Descending
    <3> QED  BY <1>2, <1>3, <3>2
  <2> QED  BY <1>2, <1>3, <2>1 DEF Descending
<1>7. j - i \in 1..(N - i) /\ legacy[j - i] = target
  <2>1. j - i \in 1..(N - i) /\ i + (j - i) = j
    BY <1>2, <1>3
  <2>2. legacy[j - i] = s[i + (j - i)]
    BY <1>2, <1>3, <2>1
  <2> QED  BY <1>2, <1>3, <2>1, <2>2
<1>8. last \in 1..(N - i) /\ legacy[last] <= target /\ last <= j - i
  <2>1. \E k \in 1..Len(legacy) : legacy[k] <= target
    BY <1>2, <1>3, <1>4, <1>7
  <2>2. last # 0
    BY <1>4, <1>6, <2>1, FirstAtMostIs
  <2>3. last \in 1..Len(legacy) /\ legacy[last] <= target
        /\ \A k \in 1..Len(legacy) : legacy[k] <= target <=> last <= k
    BY <1>4, <1>6, <2>2, FirstAtMostIs
  <2> HIDE DEF last
  <2>4. legacy[j - i] <= target <=> last <= j - i
    BY <1>2, <1>3, <1>7, <2>3
  <2> QED  BY <1>2, <1>3, <1>4, <1>7, <2>3, <2>4
<1> HIDE DEF last
<1>9. last = j - i
  <2>1. last < j - i => legacy[last] > legacy[j - i]
    BY <1>2, <1>3, <1>6, <1>7, <1>8 DEF Descending
  <2>2. legacy[last] \in Nat
    BY <1>2, <1>3, <1>8
  <2> QED  BY <1>2, <1>3, <1>4, <1>7, <1>8, <2>1, <2>2
<1>10. last \in Nat /\ 1 <= last /\ last <= Len(legacy)
  BY <1>2, <1>3, <1>8
<1>11. SubSeq(legacy, 1, last) \in Seq(Nat) /\ Len(SubSeq(legacy, 1, last)) = last
      /\ SubSeq(legacy, 1, last)[last] = legacy[last]
  BY <1>2, <1>10
<1>12. SubSeq(legacy, 1, last) # <<>>
  BY <1>10, <1>11
<1>13. PICK chain : chain = SubSeq(legacy, 1, last)
  OBVIOUS
<1>14. IsSequence(chain) /\ Len(chain) = j - i
  BY <1>9, <1>11, <1>13, SequenceIs
<1>15. \A k \in 1..(j - i) : chain[k] = s[i + k]
  <2>1. ASSUME NEW k \in 1..last
        PROVE  SubSeq(legacy, 1, last)[k] = legacy[k]
    <3>1. legacy \in Seq(Nat)
      BY <1>2
    <3>2. k \in Nat /\ 1 <= k /\ k <= last /\ 1 + k - 1 = k
      BY <1>10
    <3> QED  BY <1>10, <3>1, <3>2
  <2>2. \A k \in 1..(j - i) : k \in 1..last /\ k \in 1..(N - i)
    BY <1>3, <1>9
  <2> QED  BY <1>2, <1>13, <2>1, <2>2
<1>16. Elements(chain) = VersionsBetween(b, T, target, v)
  <2>1. \A k \in 1..(j - i) : \E m \in (i + 1)..j : chain[k] = s[m]
    <3>1. \A k \in 1..(j - i) : i + k \in (i + 1)..j
      BY <1>3
    <3> QED  BY <1>15, <3>1
  <2>2. \A m \in (i + 1)..j : \E k \in 1..(j - i) : chain[k] = s[m]
    <3>1. \A m \in (i + 1)..j : m - i \in 1..(j - i) /\ i + (m - i) = m
      BY <1>3
    <3> QED  BY <1>15, <3>1
  <2>3. i \in 1..N /\ j \in 1..N
    BY <1>3
  <2>4. Spans(s, N, i, j, chain)
    BY <1>2, <1>3, <1>14, <2>1, <2>2, <2>3 DEF Spans
  <2>5. Elements(chain) = {p \in ToSet(s) : s[j] <= p /\ p < s[i]}
    BY <2>4, BetweenThem
  <2> QED  BY <1>2, <2>5 DEF VersionsBetween
<1> QED  BY <1>5, <1>7, <1>9, <1>11, <1>12, <1>13, <1>16, SequenceIs DEF Last

(* fromOldStruct begins at the version of the message, and has all the     *)
(* versions from there to that next to the struct's.                       *)
LEMMA VersionsUp ==
  ASSUME NEW b, IsBuild(b), NEW T \in DOMAIN b.private, NEW v \in ToSet(b.private[T]),
         NEW target \in ToSet(b.private[T]), target < v,
         NEW chain, chain = FromVersion(b, T, v, target)
  PROVE  /\ IsSequence(chain) /\ chain # <<>> /\ Head(chain) = target
         /\ Len(chain) < Len(b.private[T])
         /\ Elements(chain) = VersionsBetween(b, T, target, v)
         /\ \E i \in 1..(Len(b.private[T]) - 1) :
              v = b.private[T][i] /\ chain[Len(chain)] = b.private[T][i + 1]
<1>1. PICK s, N, i, j, legacy : LaterAndEarlier(b, T, v, target, s, N, i, j, legacy)
  BY TwoVersionsOf
<1>2. /\ s = b.private[T] /\ N = Len(s) /\ legacy = Legacy(b, T, v)
      /\ Descending(s) /\ DOMAIN s = 1..N /\ \A k \in 1..N : s[k] \in Nat
      /\ s[i] = v /\ s[j] = target
      /\ legacy \in Seq(Nat) /\ Len(legacy) = N - i /\ DOMAIN legacy = 1..(N - i)
      /\ \A k \in 1..(N - i) : i + k \in 1..N /\ legacy[k] = s[i + k]
  BY <1>1 DEF LaterAndEarlier, LegacyAfter
<1>3. N \in Nat /\ i \in Nat /\ j \in Nat /\ 1 <= i /\ i < j /\ j <= N
  BY <1>1 DEF LaterAndEarlier
<1>4. target \in Nat
  BY <1>2, <1>3
<1> DEFINE up == Reverse(legacy)
           L == N - i
           skips(k) == \A m \in 2..k : up[m] <= target
           IsFirst(k) == k \in 1..Len(up) /\ skips(k) /\ (k < Len(up) => ~skips(k + 1))
           first == CHOOSE k \in 1..Len(up) : skips(k) /\ (k < Len(up) => ~skips(k + 1))
<1>5. FromVersion(b, T, v, target) = SubSeq(up, first, Len(up))
  <2>1. Tail(getPrivateVersions(b, T, v)) = legacy
    BY <1>2, <1>3 DEF Legacy
  <2> QED  BY <2>1 DEF FromVersion
<1>6. L \in Nat /\ Len(legacy) = L /\ L >= 1 /\ L = N - i
  BY <1>2, <1>3
<1>7. up \in Seq(Nat) /\ Len(up) = L /\ \A k \in 1..L : up[k] = s[N - k + 1]
  <2>1. up = [k \in 1..L |-> legacy[L - k + 1]]
    BY <1>6 DEF Reverse
  <2>2. \A k \in 1..L : L - k + 1 \in 1..L
    BY <1>6
  <2>3. \A k \in 1..L : legacy[k] \in Nat
    BY <1>2, <1>3, <1>6
  <2> HIDE DEF L
  <2>4. up \in [1..L -> Nat]
    BY <2>1, <2>2, <2>3
  <2>5. up \in Seq(Nat) /\ Len(up) = L
    <3> HIDE DEF up
    <3> QED  BY <1>6, <2>4
  <2>6. ASSUME NEW k \in 1..L
        PROVE  up[k] = s[N - k + 1]
    <3>1. legacy[L - k + 1] = s[i + (L - k + 1)]
      BY <1>2, <1>3, <2>2 DEF L
    <3>2. i + (L - k + 1) = N - k + 1
      BY <1>3 DEF L
    <3> QED  BY <2>1, <3>1, <3>2
  <2> QED  BY <2>5, <2>6
<1> HIDE DEF up
<1>8. ASSUME NEW k \in 1..L, NEW m \in 1..L, k < m
      PROVE  up[k] < up[m] /\ up[k] \in Nat /\ up[m] \in Nat
  <2>1. N - k + 1 \in 1..N /\ N - m + 1 \in 1..N /\ N - m + 1 < N - k + 1
    BY <1>3, <1>8
  <2>2. s[N - m + 1] > s[N - k + 1]
    BY <1>2, <1>3, <2>1 DEF Descending
  <2>3. s[N - m + 1] \in Nat /\ s[N - k + 1] \in Nat
    BY <1>2, <1>3, <2>1
  <2> QED  BY <1>7, <2>2, <2>3
<1>9. PICK f : f = N - j + 1
  OBVIOUS
<1>10. f \in 1..L /\ up[f] = target
  <2>1. f \in 1..L /\ N - f + 1 = j
    BY <1>2, <1>3, <1>9
  <2>2. up[f] = s[N - f + 1]
    BY <1>7, <2>1
  <2> QED  BY <1>2, <1>3, <2>1, <2>2
<1> HIDE DEF L
<1>11. IsFirst(f)
  <2>1. ASSUME NEW m \in 2..f
        PROVE  up[m] <= target
    <3>1. m \in 1..L /\ (m = f \/ m < f)
      BY <1>6, <1>10
    <3> QED  BY <1>4, <1>8, <1>10, <3>1
  <2>2. ASSUME f < L
        PROVE  ~skips(f + 1)
    <3>1. f + 1 \in 1..L /\ f + 1 \in 2..(f + 1) /\ f < f + 1
      BY <1>6, <1>10, <2>2
    <3>2. up[f] < up[f + 1] /\ up[f + 1] \in Nat
      BY <1>8, <1>10, <3>1
    <3> QED  BY <1>4, <1>10, <3>1, <3>2
  <2> QED  BY <1>7, <1>10, <2>1, <2>2
<1>12. ASSUME NEW k, IsFirst(k)
       PROVE  k = f
  <2>1. k \in Nat /\ f \in Nat /\ L \in Nat /\ k <= L /\ f <= L /\ k >= 1 /\ f >= 1
    BY <1>6, <1>7, <1>10, <1>12
  <2>2. CASE k < f
    <3>1. ~skips(k + 1)
      BY <1>7, <1>12, <2>1, <2>2
    <3>2. skips(k + 1)
      <4>1. skips(f)
        BY <1>11
      <4>2. k + 1 <= f
        BY <2>1, <2>2
      <4> QED  BY <2>1, <4>1, <4>2
    <3> QED  BY <3>1, <3>2
  <2>3. CASE f < k
    <3>1. f + 1 \in 2..k /\ f + 1 \in 1..L /\ f < f + 1
      BY <2>1, <2>3
    <3>2. up[f + 1] <= target
      BY <1>12, <3>1
    <3>3. up[f] < up[f + 1] /\ up[f + 1] \in Nat
      BY <1>8, <1>10, <3>1
    <3> QED  BY <1>4, <1>10, <3>2, <3>3
  <2> QED  BY <2>1, <2>2, <2>3
<1>13. first = f
  <2>1. first \in 1..Len(up) /\ skips(first) /\ (first < Len(up) => ~skips(first + 1))
    BY <1>11
  <2> HIDE DEF first
  <2> QED  BY <1>12, <2>1
<1> HIDE DEF first
<1>14. chain = SubSeq(up, f, L)
  BY <1>5, <1>7, <1>13
<1>15. f \in Nat /\ L \in Nat /\ f >= 1 /\ f <= L
  BY <1>6, <1>10
<1>16. chain \in Seq(Nat) /\ Len(chain) = L - f + 1
       /\ \A k \in 1..(L - f + 1) : chain[k] = up[f + k - 1]
  BY <1>7, <1>14, <1>15
<1>17. L - f + 1 \in 1..(L - f + 1) /\ 1 \in 1..(L - f + 1) /\ L - f + 1 < N
  BY <1>2, <1>3, <1>9, <1>15 DEF L
<1>18. chain # <<>> /\ Head(chain) = target
  <2>1. f + 1 - 1 = f
    BY <1>15
  <2>2. chain[1] = up[f + 1 - 1]
    BY <1>16, <1>17
  <2>3. Len(chain) # 0
    BY <1>15, <1>16
  <2> QED  BY <1>10, <1>16, <2>1, <2>2, <2>3
<1>19. chain[Len(chain)] = s[i + 1] /\ i \in 1..(N - 1)
  <2>1. f + (L - f + 1) - 1 = L /\ L \in 1..L /\ N - L + 1 = i + 1
    BY <1>2, <1>3, <1>15 DEF L
  <2>2. chain[L - f + 1] = up[f + (L - f + 1) - 1]
    BY <1>16, <1>17
  <2>3. up[L] = s[N - L + 1]
    BY <1>7, <2>1
  <2>4. i \in 1..(N - 1)
    BY <1>2, <1>3
  <2> QED  BY <1>16, <2>1, <2>2, <2>3, <2>4
<1>20. IsSequence(chain)
  BY <1>16, SequenceIs
<1>21. Elements(chain) = VersionsBetween(b, T, target, v)
  <2>1. L - f + 1 = j - i
    BY <1>3, <1>9 DEF L
  <2>2. ASSUME NEW k \in 1..(j - i)
        PROVE  j - k + 1 \in (i + 1)..j /\ chain[k] = s[j - k + 1]
    <3>1. j - k + 1 \in (i + 1)..j
      BY <1>3
    <3>2. f + k - 1 \in 1..L /\ N - (f + k - 1) + 1 = j - k + 1 /\ k \in 1..(L - f + 1)
      BY <1>3, <1>9, <1>15, <2>1
    <3>3. chain[k] = up[f + k - 1]
      BY <1>16, <3>2
    <3>4. up[f + k - 1] = s[N - (f + k - 1) + 1]
      BY <1>7, <3>2
    <3> QED  BY <3>1, <3>2, <3>3, <3>4
  <2>3. \A m \in (i + 1)..j : j - m + 1 \in 1..(j - i) /\ j - (j - m + 1) + 1 = m
    BY <1>3
  <2>4. /\ \A k \in 1..(j - i) : \E m \in (i + 1)..j : chain[k] = s[m]
        /\ \A m \in (i + 1)..j : \E k \in 1..(j - i) : chain[k] = s[m]
    BY <2>2, <2>3
  <2>5. i \in 1..N /\ j \in 1..N /\ Len(chain) = j - i
    BY <1>3, <1>16, <2>1
  <2>6. Spans(s, N, i, j, chain)
    BY <1>2, <1>3, <1>20, <2>4, <2>5 DEF Spans
  <2>7. Elements(chain) = {p \in ToSet(s) : s[j] <= p /\ p < s[i]}
    BY <2>6, BetweenThem
  <2> QED  BY <1>2, <2>7 DEF VersionsBetween
<1> QED  BY <1>2, <1>3, <1>16, <1>17, <1>18, <1>19, <1>20, <1>21

-----------------------------------------------------------------------------
(* Contexts, and what a message holds of a build's structs.                *)

(* What the definition of a version of a struct cannot but be              *)
LEMMA LayoutIs ==
  ASSUME NEW b, IsBuild(b), NEW T \in DOMAIN b.private, NEW v \in ToSet(b.private[T])
  PROVE  /\ b.layout[T][v].members \in Seq(Members)
         /\ b.layout[T][v].latest \in Nat /\ v <= b.layout[T][v].latest
         /\ \A m \in ToSet(b.layout[T][v].members) : m.kind # "number" =>
              /\ IsPart(b, m) /\ getOriginPrivateVersion(b, m.type) <= v
              /\ v = getLatestPrivateVersion(b, T) =>
                   /\ m.kind # "pointer" => m.version = getLatestPrivateVersion(b, m.type)
                   /\ getLatestInterfaceVersion(b, m.type) <= b.layout[T][v].latest
BY DEF IsBuild

(* The latest private version is one of them, and not above the interface version. *)
LEMMA LatestIs ==
  ASSUME NEW b, IsBuild(b), NEW T \in DOMAIN b.private
  PROVE  /\ getLatestPrivateVersion(b, T) \in ToSet(b.private[T])
         /\ getLatestPrivateVersion(b, T) \in Nat /\ getOriginPrivateVersion(b, T) \in Nat
         /\ getLatestInterfaceVersion(b, T) \in Nat
         /\ getLatestPrivateVersion(b, T) <= getLatestInterfaceVersion(b, T)
<1> DEFINE v == getLatestPrivateVersion(b, T)
<1>1. Len(b.private[T]) \in Nat /\ Len(b.private[T]) >= 1 /\ v = b.private[T][1]
      /\ getOriginPrivateVersion(b, T) = b.private[T][Len(b.private[T])]
      /\ \A i \in 1..Len(b.private[T]) :
           b.private[T][i] \in ToSet(b.private[T]) /\ b.private[T][i] \in Nat
  BY PrivateVersions
<1>2. v \in ToSet(b.private[T]) /\ v \in Nat /\ getOriginPrivateVersion(b, T) \in Nat
  BY <1>1
<1>3. b.layout[T][v].latest \in Nat /\ v <= b.layout[T][v].latest
  BY <1>2, LayoutIs
<1> QED  BY <1>2, <1>3 DEF getLatestInterfaceVersion

(* What ISerializable::serialize goes on with                              *)
LEMMA SerializeContextIs ==
  ASSUME NEW b, IsBuild(b), NEW T \in DOMAIN b.private, NEW given \in Contexts,
         NEW context, context = SerializeContext(b, T, given)
  PROVE  context.ctx \in Contexts /\ (context.accepted => InMessage(b, context.ctx, T))
<1> DEFINE ctx == IF given.version = Undefined
                  THEN [given EXCEPT !.version = getLatestInterfaceVersion(b, T)] ELSE given
<1>1. getOriginPrivateVersion(b, T) \in Nat /\ getLatestInterfaceVersion(b, T) \in Nat
      /\ b.interface \in Nat
  BY LatestIs DEF IsBuild
<1>2. ctx \in Contexts
  BY <1>1 DEF Contexts
<1>3. /\ context.accepted => /\ context.ctx = RaiseNotMatch(b, T, ctx)
                            /\ ctx.version \in getOriginPrivateVersion(b, T)..b.interface
      /\ context.ctx \in {RaiseNotMatch(b, T, ctx), ctx}
  BY DEF SerializeContext
<1> HIDE DEF ctx
<1>4. /\ context.ctx \in Contexts /\ context.ctx.version = ctx.version
      /\ context.accepted /\ ~context.ctx.notMatch =>
           ~(ctx.version < getLatestInterfaceVersion(b, T))
  BY <1>2, <1>3 DEF RaiseNotMatch, Contexts
<1>5. ctx.version \in Nat
  BY <1>2 DEF Contexts
<1> QED  BY <1>1, <1>3, <1>4, <1>5 DEF InMessage

(* What ISerializable::deserialize goes on with                            *)
LEMMA DeserializeContextIs ==
  ASSUME NEW b, IsBuild(b), NEW T \in DOMAIN b.private, NEW given \in Contexts,
         NEW sent \in Contexts, NEW added,
         given.version = Undefined \/ getOriginPrivateVersion(b, T) <= given.version,
         NEW context, context = DeserializeContext(b, T, given, sent.version, sent.flags,
                                                   sent.endiannessDifference, added)
  PROVE  /\ context.ctx \in Contexts
         /\ context.ctx.flags = sent.flags /\ context.ctx.version = sent.version
         /\ context.ctx.endiannessDifference = sent.endiannessDifference
         /\ context.accepted => InMessage(b, context.ctx, T)
         /\ context.accepted => getOriginPrivateVersion(b, T) <= context.ctx.version
<1> DEFINE ctx == [given EXCEPT !.version = sent.version, !.flags = sent.flags,
                                !.endiannessDifference = sent.endiannessDifference]
           least == IF given.version = Undefined THEN getOriginPrivateVersion(b, T)
                    ELSE given.version
           supported == sent.version \in least..b.interface
<1>1. getOriginPrivateVersion(b, T) \in Nat /\ getLatestInterfaceVersion(b, T) \in Nat
      /\ b.interface \in Nat /\ given.version \in Nat /\ sent.version \in Nat
  BY LatestIs DEF IsBuild, Contexts
<1>2. /\ ctx \in Contexts /\ ctx.version = sent.version /\ ctx.flags = sent.flags
      /\ ctx.endiannessDifference = sent.endiannessDifference
  BY DEF Contexts
<1>3. context.ctx = (IF supported THEN RaiseNotMatch(b, T, ctx) ELSE ctx)
      /\ (context.accepted => supported)
  BY DEF DeserializeContext
<1>4. supported => getOriginPrivateVersion(b, T) <= sent.version
  BY <1>1
<1> HIDE DEF ctx, least, supported
<1>5. /\ context.ctx \in Contexts /\ context.ctx.version = ctx.version
      /\ context.ctx.flags = ctx.flags
      /\ context.ctx.endiannessDifference = ctx.endiannessDifference
      /\ supported /\ ~context.ctx.notMatch => ~(ctx.version < getLatestInterfaceVersion(b, T))
  BY <1>2, <1>3 DEF RaiseNotMatch, Contexts
<1> QED  BY <1>1, <1>2, <1>3, <1>4, <1>5 DEF InMessage

(* A struct of the version that the message has, and its members           *)
LEMMA MembersInMessage ==
  ASSUME NEW b, IsBuild(b), NEW ctx \in Contexts, NEW T, NEW v, StructInMessage(b, ctx, T, v),
         ctx.notMatch => v <= ctx.version
  PROVE  \A m \in ToSet(b.layout[T][v].members) : m \in Members /\ MemberInMessage(b, ctx, m)
<1>1. /\ T \in DOMAIN b.private /\ v \in ToSet(b.private[T]) /\ ctx.version \in Nat
      /\ ~ctx.notMatch => v = getLatestPrivateVersion(b, T)
      /\ ~ctx.notMatch => getLatestInterfaceVersion(b, T) <= ctx.version
  BY DEF StructInMessage, InMessage, Contexts
<1>2. v \in Nat /\ b.layout[T][v].latest \in Nat /\ v <= b.layout[T][v].latest
  BY <1>1, PrivateVersions, LayoutIs
<1>3. ~ctx.notMatch => b.layout[T][v].latest <= ctx.version
  BY <1>1 DEF getLatestInterfaceVersion
<1>4. v <= ctx.version
  BY <1>1, <1>2, <1>3
<1>5. ASSUME NEW m \in ToSet(b.layout[T][v].members)
      PROVE  m \in Members /\ MemberInMessage(b, ctx, m)
  <2>1. m \in Members
    <3>1. b.layout[T][v].members \in Seq(Members)
      BY <1>1, LayoutIs
    <3> QED  BY <3>1 DEF ToSet
  <2>2. m \in MembersIn(b)
    BY <1>1 DEF MembersIn
  <2>3. ASSUME m.kind # "number"
        PROVE  InMessage(b, ctx, m.type)
               /\ (m.kind # "pointer" => StructInMessage(b, ctx, m.type, m.version))
    <3>1. /\ IsPart(b, m) /\ getOriginPrivateVersion(b, m.type) <= v
          /\ v = getLatestPrivateVersion(b, T) =>
               /\ m.kind # "pointer" => m.version = getLatestPrivateVersion(b, m.type)
               /\ getLatestInterfaceVersion(b, m.type) <= b.layout[T][v].latest
      BY <1>1, <2>3, LayoutIs
    <3>2. m.type \in DOMAIN b.private
      BY <3>1 DEF IsPart
    <3>3. getOriginPrivateVersion(b, m.type) \in Nat /\ getLatestInterfaceVersion(b, m.type) \in Nat
      BY <3>2, LatestIs
    <3>4. getOriginPrivateVersion(b, m.type) <= ctx.version
      BY <1>1, <1>2, <1>4, <3>1, <3>3
    <3>5. ~ctx.notMatch => getLatestInterfaceVersion(b, m.type) <= ctx.version
      BY <1>1, <1>2, <1>3, <3>1, <3>3
    <3>6. InMessage(b, ctx, m.type)
      BY <3>2, <3>4, <3>5 DEF InMessage
    <3> QED  BY <1>1, <3>1, <3>6 DEF StructInMessage, IsPart
  <2> QED  BY <2>1, <2>2, <2>3 DEF MemberInMessage
<1> QED  BY <1>5

(* The version that the message has of a struct                            *)
LEMMA MessageVersion ==
  ASSUME NEW b, IsBuild(b), NEW ctx \in Contexts, NEW item,
         StructInMessage(b, ctx, item.type, item.version),
         NEW target, target = VersionInMessage(b, item, ctx)
  PROVE  /\ item.type \in DOMAIN b.private /\ item.version \in ToSet(b.private[item.type])
         /\ target \in ToSet(b.private[item.type])
         /\ target \in Nat /\ item.version \in Nat
         /\ target <= ctx.version /\ ctx.version \in Nat
         /\ target # item.version => ctx.notMatch /\ target < item.version
<1>1. /\ item.type \in DOMAIN b.private /\ item.version \in ToSet(b.private[item.type])
      /\ getOriginPrivateVersion(b, item.type) <= ctx.version /\ ctx.version \in Nat
      /\ ~ctx.notMatch => item.version = getLatestPrivateVersion(b, item.type)
      /\ ~ctx.notMatch => getLatestInterfaceVersion(b, item.type) <= ctx.version
  BY DEF StructInMessage, InMessage, Contexts
<1>2. \A p \in ToSet(b.private[item.type]) : p \in Nat
  BY <1>1, PrivateVersions
<1>3. CASE ctx.notMatch
  <2>1. target = getBestCompatInterfaceVersion(b, item.type, item.version, ctx.version)
    BY <1>3 DEF VersionInMessage
  <2>2. target \in ToSet(b.private[item.type]) /\ target <= item.version /\ target <= ctx.version
    BY <1>1, <2>1, BestVersion
  <2> QED  BY <1>1, <1>2, <1>3, <2>2
<1>4. CASE ~ctx.notMatch
  <2>1. target = item.version
    BY <1>4 DEF VersionInMessage
  <2>2. item.version <= ctx.version
    BY <1>1, <1>2, <1>4, LatestIs
  <2> QED  BY <1>1, <1>2, <2>1, <2>2
<1> QED  BY <1>3, <1>4

-----------------------------------------------------------------------------
(* The items of the agenda.                                                *)

(* A struct that the message can hold is an item.                          *)
LEMMA StructIsItem ==
  ASSUME NEW b, NEW ctx, NEW n, NEW T, NEW v, NEW at, NEW from, NEW kept,
         StructInMessage(b, ctx, T, v), IsPlace(at), IsPlace(from)
  PROVE  /\ IsItem(b, ctx, n, Struct(T, v, at, from, kept))
         /\ Struct(T, v, at, from, kept).from = from /\ Struct(T, v, at, from, kept).at = at
         /\ Struct(T, v, at, from, kept).do = "struct"
BY DEF IsItem, Struct

(* So is the latest version of a struct, to or from its own place.         *)
LEMMA LatestIsItem ==
  ASSUME NEW b, IsBuild(b), NEW ctx, NEW n, NEW T, NEW at, InMessage(b, ctx, T), IsPlace(at)
  PROVE  /\ IsItem(b, ctx, n, Latest(b, T, at))
         /\ Latest(b, T, at).from = at /\ Latest(b, T, at).at = at
         /\ Latest(b, T, at).do = "struct"
<1>1. T \in DOMAIN b.private
  BY DEF InMessage
<1>2. StructInMessage(b, ctx, T, getLatestPrivateVersion(b, T))
  BY <1>1, LatestIs DEF StructInMessage
<1> QED  BY <1>2, StructIsItem DEF Latest, Whole

(* What an item is by what there is to do                                  *)
LEMMA ItemIsStruct ==
  ASSUME NEW b, NEW ctx, NEW n, NEW item, IsItem(b, ctx, n, item), item.do = "struct"
  PROVE  StructInMessage(b, ctx, item.type, item.version) /\ IsPlace(item.at) /\ IsPlace(item.from)
BY DEF IsItem, MemberKinds

(* An item that is a member                                                *)
LEMMA ItemIsMember ==
  ASSUME NEW b, NEW ctx, NEW n, NEW item, IsItem(b, ctx, n, item), item.do \in MemberKinds
  PROVE  /\ item.do = item.member.kind /\ MemberInMessage(b, ctx, item.member)
         /\ IsPlace(item.at) /\ IsPlace(item.from)
BY DEF IsItem, MemberKinds

(* An item that converts what was read into a temporary                    *)
LEMMA ItemIsConvert ==
  ASSUME NEW b, NEW ctx, NEW n, NEW item, IsItem(b, ctx, n, item), item.do = "convert"
  PROVE  ctx.notMatch /\ IsPlace(item.at) /\ (\E k \in 1..n : item.temporary = <<k>>)
BY DEF IsItem, MemberKinds

(* An item that numbers an element of an array                             *)
LEMMA ItemIsElement ==
  ASSUME NEW b, NEW ctx, NEW n, NEW item, IsItem(b, ctx, n, item), item.do = "element"
  PROVE  IsPlace(item.at) /\ \E m \in MembersIn(b) : m.kind = "array"
BY DEF IsItem, MemberKinds

(* An item stays one when more objects are made.                           *)
LEMMA MoreMade ==
  ASSUME NEW b, NEW ctx, NEW n \in Nat, NEW item, IsItem(b, ctx, n, item), NEW k \in Nat, n <= k
  PROVE  IsItem(b, ctx, k, item)
<1>1. 1..n \subseteq 1..k
  OBVIOUS
<1> QED  BY <1>1 DEF IsItem

(* The members of a struct of the version of the message                   *)
LEMMA MembersAreItems ==
  ASSUME NEW b, IsBuild(b), NEW ctx \in Contexts, NEW n, NEW item,
         IsItem(b, ctx, n, item), item.do = "struct", VersionInMessage(b, item, ctx) = item.version
  PROVE  /\ IsSequence(MembersOf(b, item))
         /\ \A x \in Elements(MembersOf(b, item)) :
              IsItem(b, ctx, n, x) /\ x.from = item.from /\ x.at = item.at /\ x.do # "convert"
<1> DEFINE members == Layout(b, item).members
<1>1. StructInMessage(b, ctx, item.type, item.version) /\ IsPlace(item.at) /\ IsPlace(item.from)
  BY ItemIsStruct
<1>2. /\ item.type \in DOMAIN b.private /\ item.version \in ToSet(b.private[item.type])
      /\ item.version <= ctx.version
  BY <1>1, MessageVersion
<1>3. \A m \in ToSet(members) : m \in Members /\ MemberInMessage(b, ctx, m)
  BY <1>1, <1>2, MembersInMessage DEF Layout
<1>4. members \in Seq(Members)
  BY <1>2, LayoutIs DEF Layout
<1> DEFINE part(m) == [do |-> m.kind, member |-> m, at |-> item.at, from |-> item.from,
                       kept |-> item.kept]
<1>5. MembersOf(b, item) = [i \in DOMAIN members |-> part(members[i])]
  BY DEF MembersOf
<1> HIDE DEF members
<1>6. ASSUME NEW m \in ToSet(members)
      PROVE  IsItem(b, ctx, n, part(m)) /\ part(m).from = item.from /\ part(m).at = item.at
             /\ part(m).do # "convert"
  BY <1>1, <1>3 DEF IsItem, Members, MemberKinds
<1> DEFINE S == {part(m) : m \in ToSet(members)}
<1>7. DOMAIN members = 1..Len(members) /\ Len(members) \in Nat
      /\ \A i \in 1..Len(members) : members[i] \in ToSet(members)
  BY <1>4 DEF ToSet
<1>8. [i \in DOMAIN members |-> part(members[i])] \in Seq(S)
  <2>1. \A i \in 1..Len(members) : part(members[i]) \in S
    BY <1>7
  <2> HIDE DEF S, part
  <2> QED  BY <1>7, <2>1
<1>9. \A x \in S : IsItem(b, ctx, n, x) /\ x.from = item.from /\ x.at = item.at /\ x.do # "convert"
  <2> HIDE DEF part
  <2> QED  BY <1>6
<1> QED  BY <1>5, <1>8, <1>9, SequenceIs

(* The struct that a member or an element is                               *)
LEMMA SubStructIsItem ==
  ASSUME NEW b, NEW ctx, NEW n, NEW item, NEW j, IsItem(b, ctx, n, item),
         item.do \in {"member", "array"}
  PROVE  /\ IsItem(b, ctx, n, SubStruct(b, item, j))
         /\ SubStruct(b, item, j).from[1] = item.from[1]
         /\ SubStruct(b, item, j).at[1] = item.at[1]
         /\ SubStruct(b, item, j).do = "struct"
         /\ IsPlace(SubStruct(b, item, j).at)
<1>1. /\ MemberInMessage(b, ctx, item.member) /\ item.member.kind \in {"member", "array"}
      /\ IsPlace(item.at) /\ IsPlace(item.from)
  BY ItemIsMember DEF MemberKinds
<1>2. StructInMessage(b, ctx, item.member.type, item.member.version)
  BY <1>1 DEF MemberInMessage
<1>3. /\ IsPlace(Part(item.at, item.member.name, j)) /\ IsPlace(Part(item.from, item.member.name, j))
      /\ Part(item.from, item.member.name, j)[1] = item.from[1]
      /\ Part(item.at, item.member.name, j)[1] = item.at[1]
  BY <1>1, PartIsPlace
<1> QED  BY <1>2, <1>3, StructIsItem DEF SubStruct, Whole, Struct

(* What an array holds                                                     *)
LEMMA ArrayIs ==
  ASSUME NEW b, IsBuild(b), NEW ctx, NEW n, NEW item, IsItem(b, ctx, n, item), item.do = "array"
  PROVE  /\ item.member \in MembersIn(b) /\ item.member.kind = "array"
         /\ item.member.n \in Nat /\ item.member.n >= 1
         /\ IsPlace(item.at) /\ IsPlace(item.from)
<1>1. item.member \in MembersIn(b) /\ item.member.kind = "array"
      /\ IsPlace(item.at) /\ IsPlace(item.from)
  BY ItemIsMember DEF MemberKinds, MemberInMessage
<1>2. PICK T \in DOMAIN b.private : \E v \in ToSet(b.private[T]) :
        item.member \in ToSet(b.layout[T][v].members)
  BY <1>1 DEF MembersIn
<1>3. PICK v \in ToSet(b.private[T]) : item.member \in ToSet(b.layout[T][v].members)
  BY <1>2
<1>4. b.layout[T][v].members \in Seq(Members)
  BY LayoutIs
<1>5. item.member \in Members
  BY <1>3, <1>4 DEF ToSet
<1> QED  BY <1>1, <1>5 DEF Members

(* The elements of an array, one by one                                    *)
OneByOne(b, item) ==
  [j \in 1..item.member.n |->
     <<[do |-> "element", at |-> SubStruct(b, item, j).at], SubStruct(b, item, j)>>]

(* They are items, and stand where the array stands.                       *)
LEMMA ElementsAreItems ==
  ASSUME NEW b, IsBuild(b), NEW ctx, NEW n, NEW item, IsItem(b, ctx, n, item), item.do = "array"
  PROVE  /\ IsSequence(FlattenSeq(OneByOne(b, item)))
         /\ \A x \in Elements(FlattenSeq(OneByOne(b, item))) :
              /\ IsItem(b, ctx, n, x) /\ x.at[1] = item.at[1] /\ x.do # "convert"
              /\ x.do # "element" => x.from[1] = item.from[1]
<1> DEFINE S == {x \in UNION {Elements(OneByOne(b, item)[j]) : j \in 1..item.member.n} :
                   /\ IsItem(b, ctx, n, x) /\ x.at[1] = item.at[1] /\ x.do # "convert"
                   /\ x.do # "element" => x.from[1] = item.from[1]}
           element(j) == [do |-> "element", at |-> SubStruct(b, item, j).at]
<1>1. item.member \in MembersIn(b) /\ item.member.kind = "array"
  BY ArrayIs
<1>2. item.member.n \in Nat
  BY ArrayIs
<1>3. ASSUME NEW j \in 1..item.member.n
      PROVE  IsSequence(OneByOne(b, item)[j]) /\ Elements(OneByOne(b, item)[j]) \subseteq S
  <2>1. OneByOne(b, item)[j] = <<element(j), SubStruct(b, item, j)>>
    BY DEF OneByOne
  <2>2. IsItem(b, ctx, n, SubStruct(b, item, j)) /\ SubStruct(b, item, j).from[1] = item.from[1]
        /\ IsPlace(SubStruct(b, item, j).at) /\ SubStruct(b, item, j).at[1] = item.at[1]
        /\ SubStruct(b, item, j).do = "struct"
    BY SubStructIsItem
  <2>3. IsItem(b, ctx, n, element(j)) /\ element(j).do = "element"
        /\ element(j).at[1] = item.at[1]
    BY <1>1, <2>2 DEF IsItem
  <2> HIDE DEF element
  <2>4. IsSequence(<<element(j), SubStruct(b, item, j)>>)
        /\ Elements(<<element(j), SubStruct(b, item, j)>>) = {element(j), SubStruct(b, item, j)}
    BY DEF IsSequence, Elements
  <2> QED  BY <2>1, <2>2, <2>3, <2>4
<1>4. IsSequence(OneByOne(b, item)) /\ Len(OneByOne(b, item)) = item.member.n
  BY <1>2 DEF OneByOne, IsSequence
<1> HIDE DEF S
<1>5. IsSequence(FlattenSeq(OneByOne(b, item))) /\ Elements(FlattenSeq(OneByOne(b, item))) \subseteq S
  BY <1>3, <1>4, Flattened
<1> QED  BY <1>5 DEF S

-----------------------------------------------------------------------------
(* What a step may do to all that is kept.                                 *)

(* Both sides know their structs, and the struct of the message.           *)
LEMMA SidesAreBuilds ==
  ASSUME pair \in Pairs
  PROVE  /\ IsBuild(writer) /\ RootType \in DOMAIN writer.private
         /\ IsBuild(reader) /\ RootType \in DOMAIN reader.private
BY BuildsAssumption DEF writer, reader

(* The items of calls come before the rest of the agenda.                  *)
LEMMA Continued ==
  ASSUME NEW items, NEW rest, IsSequence(items), IsSequence(rest), rest # <<>>
  PROVE  /\ IsSequence(items \o Tail(rest))
         /\ Elements(items \o Tail(rest)) \subseteq Elements(items) \cup Elements(rest)
<1>1. IsSequence(Tail(rest)) /\ Elements(Tail(rest)) \subseteq Elements(rest)
  BY TailElements
<1> QED  BY <1>1, Concatenated

(* A step of the writer that goes on with the message                      *)
LEMMA WriterGoesOn ==
  ASSUME BodyInv, phase = "write", agenda # <<>>,
         UNCHANGED <<pair, graph, sctx, phase, status, readerVars>>,
         NEW items, IsSequence(items), agenda' = items \o Tail(agenda),
         \A x \in Elements(items) :
           IsItem(writer, sctx, made, x) /\ (x.do # "element" => x.from[1] \in Objects),
         NEW tokens, IsSequence(tokens), \A x \in Elements(tokens) : IsToken(x),
         out' = out \o tokens,
         \A p \in DOMAIN pointersMap' : pointersMap'[p] \in Len(Header)..Len(out')
  PROVE  BodyInv'
<1>1. Typed /\ TypeOK /\ IsAgenda /\ WrittenFrom /\ IsMessage /\ IsMemory /\ InOrder /\ Unread
  BY DEF BodyInv, Typed, InOrder
<1>2. /\ phase' = phase /\ status' = status /\ pair' = pair /\ graph' = graph /\ sctx' = sctx
      /\ dctx' = dctx /\ objectsMap' = objectsMap /\ tell' = tell /\ memory' = memory
      /\ made' = made /\ dead' = dead /\ writer' = writer /\ reader' = reader
  BY DEF readerVars, writer, reader
<1>3. IsSequence(agenda') /\ Elements(agenda') \subseteq Elements(items) \cup Elements(agenda)
  BY <1>1, Continued DEF IsAgenda
<1>4. IsAgenda'
  <2>1. \A x \in Elements(agenda) : IsItem(writer, sctx, made, x)
    BY <1>1 DEF IsAgenda, Worker, WorkerContext
  <2>2. \A x \in Elements(agenda') : IsItem(writer, sctx, made, x)
    BY <1>3, <2>1
  <2> QED  BY <1>2, <1>3, <2>2 DEF IsAgenda, Worker, WorkerContext
<1>5. WrittenFrom'
  BY <1>1, <1>2, <1>3 DEF WrittenFrom
<1>6. IsSequence(out') /\ Len(out') = Len(out) + Len(tokens)
      /\ Elements(out') = Elements(out) \cup Elements(tokens)
      /\ Len(out) \in Nat /\ Len(tokens) \in Nat
  BY <1>1, Concatenated DEF IsMessage, IsSequence
<1>7. IsMessage'
  BY <1>1, <1>2, <1>6 DEF IsMessage, Header
<1>8. IsMemory' /\ InOrder' /\ Unread'
  BY <1>1, <1>2 DEF IsMemory, InOrder, Unread
<1>9. TypeOK'
  <2>1. tell' \in 0..Len(out')
    BY <1>1, <1>2, <1>6 DEF TypeOK
  <2>2. DOMAIN objectsMap' \subseteq Len(Header)..Len(out')
    BY <1>8 DEF Unread
  <2> QED  BY <1>1, <1>2, <2>1, <2>2 DEF TypeOK
<1>10. Typed'
  BY <1>1, <1>2, <1>4, <1>5, <1>7, <1>8, <1>9 DEF Typed, ReadInto
<1>11. PointersStay' /\ dead' = {} /\ objectsMap' = <<>>
  BY <1>8 DEF PointersStay, Unread
<1> QED  BY <1>10, <1>11 DEF BodyInv

(* A step of the writer that gives the message up                          *)
LEMMA WriterStops ==
  ASSUME BodyInv, phase = "write", UNCHANGED <<pair, graph, sctx, pointersMap, readerVars>>,
         NEW s \in Statuses \ {"none", "ready", "writing", "written", "reading", "received"},
         Stop(s), out' = out
  PROVE  BodyInv'
<1>1. Typed /\ TypeOK /\ IsAgenda /\ IsMessage /\ IsMemory /\ InOrder /\ Unread
  BY DEF BodyInv, Typed, InOrder
<1>2. /\ phase' = "idle" /\ status' = s /\ agenda' = <<>> /\ pair' = pair /\ graph' = graph
      /\ sctx' = sctx /\ pointersMap' = pointersMap
      /\ dctx' = dctx /\ objectsMap' = objectsMap /\ tell' = tell /\ memory' = memory
      /\ made' = made /\ dead' = dead /\ writer' = writer /\ reader' = reader
  BY DEF readerVars, writer, reader, Stop
<1>3. IsAgenda' /\ WrittenFrom' /\ IsMessage' /\ IsMemory' /\ Unread'
  BY <1>1, <1>2 DEF IsAgenda, WrittenFrom, IsMessage, IsMemory, Unread, IsSequence, Elements
<1>4. InOrder'
  BY <1>1, <1>2 DEF InOrder, Statuses
<1>5. TypeOK'
  BY <1>1, <1>2 DEF TypeOK
<1>6. PointersStay' /\ dead' = {} /\ objectsMap' = <<>>
  BY <1>3 DEF PointersStay, Unread
<1> QED  BY <1>1, <1>2, <1>3, <1>4, <1>5, <1>6 DEF BodyInv, Typed, ReadInto

(* A step of the reader that goes on with the message                      *)
LEMMA ReaderGoesOn ==
  ASSUME BodyInv, phase = "read", agenda # <<>>,
         UNCHANGED <<pair, writerVars, dctx, phase, status>>,
         NEW items, IsSequence(items), agenda' = items \o Tail(agenda),
         \A x \in Elements(items) : IsItem(reader, dctx, made', x) /\ x.at[1] \in 0..made',
         tell' \in tell..Len(out), made' \in Nat, made <= made', dead' \subseteq 1..made',
         ~dctx.notMatch => dead' = dead,
         IsMemory', DOMAIN objectsMap' \subseteq Len(Header)..Len(out),
         "checkRecursivePointers" \notin dctx.flags => objectsMap' = <<>>,
         ~ElementsNumbered => PointersStay'
  PROVE  BodyInv'
<1>1. Typed /\ TypeOK /\ IsAgenda /\ ReadInto /\ IsMessage /\ IsMemory /\ InOrder
  BY DEF BodyInv, Typed
<1>2. /\ phase' = phase /\ status' = status /\ pair' = pair /\ graph' = graph /\ sctx' = sctx
      /\ out' = out /\ pointersMap' = pointersMap /\ dctx' = dctx
      /\ writer' = writer /\ reader' = reader
  BY DEF writerVars, writer, reader
<1>3. IsSequence(agenda') /\ Elements(agenda') \subseteq Elements(items) \cup Elements(agenda)
  BY <1>1, Continued DEF IsAgenda
<1>4. IsAgenda'
  <2>1. \A x \in Elements(agenda) : IsItem(reader, dctx, made, x)
    BY <1>1 DEF IsAgenda, Worker, WorkerContext
  <2>2. made \in Nat
    BY <1>1 DEF IsMemory
  <2>3. \A x \in Elements(agenda) : IsItem(reader, dctx, made', x)
    BY <2>1, <2>2, MoreMade
  <2>4. \A x \in Elements(agenda') : IsItem(reader, dctx, made', x)
    BY <1>3, <2>3
  <2> QED  BY <1>2, <1>3, <2>4 DEF IsAgenda, Worker, WorkerContext
<1>5. WrittenFrom' /\ ReadInto'
  <2>1. \A x \in Elements(agenda) : x.at[1] \in 0..made
    BY <1>1 DEF ReadInto
  <2>2. 0..made \subseteq 0..made'
    BY <1>1 DEF IsMemory
  <2> QED  BY <1>2, <1>3, <2>1, <2>2 DEF WrittenFrom, ReadInto
<1>6. tell \in Nat /\ Len(out) \in Nat /\ tell' \in 0..Len(out) /\ tell' >= tell
  BY <1>1 DEF TypeOK, IsMessage, IsSequence
<1>7. IsMessage'
  <2>1. tell >= Len(Header) /\ Len(Header) \in Nat
    BY <1>1 DEF IsMessage, Header
  <2>2. tell' >= Len(Header)
    BY <1>6, <2>1
  <2> QED  BY <1>1, <1>2, <2>2 DEF IsMessage
<1>8. InOrder'
  BY <1>1, <1>2 DEF InOrder
<1>9. TypeOK'
  BY <1>1, <1>2, <1>6 DEF TypeOK
<1>10. Typed'
  BY <1>1, <1>2, <1>4, <1>5, <1>7, <1>8, <1>9 DEF Typed
<1>11. ElementsNumbered' <=> ElementsNumbered
  BY <1>2 DEF ElementsNumbered
<1> QED  BY <1>2, <1>10, <1>11 DEF BodyInv

(* A step of the reader that gives the message up                          *)
LEMMA ReaderStops ==
  ASSUME BodyInv, phase = "read", UNCHANGED <<pair, writerVars, dctx, made>>,
         NEW s \in Statuses \ {"none", "ready", "writing", "written", "reading", "received"},
         Abandon(s), tell' \in tell..Len(out), IsMemory',
         DOMAIN objectsMap' \subseteq Len(Header)..Len(out),
         "checkRecursivePointers" \notin dctx.flags => objectsMap' = <<>>,
         ~ElementsNumbered =>
           /\ \A slot \in DOMAIN memory' : Stays(memory'[slot])
           /\ \A offset \in DOMAIN objectsMap' : Stays(objectsMap'[offset])
  PROVE  BodyInv'
<1>1. Typed /\ TypeOK /\ IsAgenda /\ WrittenFrom /\ IsMessage /\ IsMemory /\ InOrder
  BY DEF BodyInv, Typed
<1>2. /\ phase' = "idle" /\ status' = s /\ agenda' = <<>> /\ dead' = dead \cup Temporaries
      /\ pair' = pair /\ graph' = graph /\ sctx' = sctx
      /\ out' = out /\ pointersMap' = pointersMap /\ dctx' = dctx /\ made' = made
      /\ writer' = writer /\ reader' = reader
  BY DEF writerVars, writer, reader, Abandon, Stop
<1>3. /\ Temporaries \subseteq 1..made
      /\ ~dctx.notMatch => Temporaries = {}
  <2>1. ASSUME NEW x \in ToSet(agenda), x.do = "convert"
        PROVE  x.temporary[1] \in 1..made /\ dctx.notMatch
    <3>1. x \in Elements(agenda)
      BY <1>1, SequenceOfElements DEF IsAgenda, ToSet, Elements
    <3>2. IsItem(reader, dctx, made, x)
      BY <1>1, <3>1 DEF IsAgenda, Worker, WorkerContext
    <3> QED  BY <2>1, <3>2, ItemIsConvert
  <2> QED  BY <2>1 DEF Temporaries
<1>4. Temporaries' = {}
  BY <1>2 DEF Temporaries, ToSet
<1>5. IsAgenda' /\ WrittenFrom' /\ IsMessage'
  BY <1>1, <1>2 DEF IsAgenda, WrittenFrom, IsMessage, IsSequence, Elements
<1>6. InOrder'
  BY <1>1, <1>2 DEF InOrder, Statuses
<1>7. TypeOK'
  <2>1. tell' \in 0..Len(out) /\ dead' \subseteq 1..made
    BY <1>1, <1>2, <1>3 DEF TypeOK, IsMessage, IsSequence
  <2> QED  BY <1>1, <1>2, <2>1 DEF TypeOK
<1>8. Typed'
  BY <1>1, <1>2, <1>5, <1>6, <1>7 DEF Typed, ReadInto
<1>9. ElementsNumbered' <=> ElementsNumbered
  BY <1>2 DEF ElementsNumbered
<1>10. ~dctx.notMatch => dead' = {}
  BY <1>2, <1>3 DEF BodyInv
<1>11. ~ElementsNumbered => PointersStay'
  BY <1>2, <1>4 DEF PointersStay, Stays
<1> QED  BY <1>2, <1>8, <1>9, <1>10, <1>11 DEF BodyInv

-----------------------------------------------------------------------------
(* The steps between two messages.                                         *)

(* A new context and a cleared one take any version.                       *)
LEMMA ContextsAre ==
  /\ NewContext \in Contexts /\ NewContext.version = Undefined
  /\ \A ctx \in Contexts : clear(ctx) \in Contexts /\ clear(ctx).version = Undefined
BY UndefinedAssumption DEF Contexts, NewContext, clear

(* The contexts forget a message or go on with the next.                   *)
LEMMA NextMessageKeepsBodyInv ==
  ASSUME BodyInv, NEW newWriter \in BOOLEAN, NEW clearReader \in BOOLEAN,
         NextMessage(newWriter, clearReader)
  PROVE  BodyInv'
<1>1. Typed /\ TypeOK /\ InOrder
  BY DEF BodyInv, Typed
<1>2. /\ phase' = "idle" /\ agenda' = <<>>
      /\ graph' = <<>> /\ out' = <<>> /\ pointersMap' = <<>> /\ objectsMap' = <<>>
      /\ tell' = 0 /\ memory' = <<>> /\ made' = 0 /\ dead' = {} /\ pair' = pair
      /\ status' \in {"none", "ready"} /\ reader' = reader
  BY DEF NextMessage, Forget, reader
<1>3. sctx' \in Contexts /\ dctx' \in Contexts
  BY <1>1, ContextsAre DEF NextMessage, TypeOK
<1>4. dctx'.version = Undefined \/ getOriginPrivateVersion(reader, RootType) <= dctx'.version
  BY <1>1, ContextsAre DEF NextMessage, TypeOK, InOrder
<1>5. IsAgenda' /\ WrittenFrom' /\ IsMessage' /\ IsMemory' /\ Unread'
  BY <1>2 DEF IsAgenda, WrittenFrom, IsMessage, IsMemory, Unread, IsSequence, Elements
<1>6. InOrder'
  BY <1>2, <1>4, <1>5 DEF InOrder
<1>7. TypeOK'
  <2>1. tell' \in 0..Len(out') /\ DOMAIN pointersMap' = {} /\ DOMAIN objectsMap' = {}
    BY <1>2
  <2> QED  BY <1>2, <1>3, <2>1 DEF TypeOK, Statuses
<1> QED  BY <1>1, <1>2, <1>5, <1>6, <1>7 DEF BodyInv, Typed, ReadInto, PointersStay

(* The program sets the writer's context up.                               *)
LEMMA SetUpKeepsBodyInv ==
  ASSUME BodyInv, NEW call \in Calls, SetUp(call)
  PROVE  BodyInv'
<1>1. Typed /\ TypeOK /\ IsAgenda /\ WrittenFrom /\ IsMessage /\ IsMemory /\ InOrder /\ status = "none"
  BY DEF BodyInv, Typed, SetUp
<1>2. /\ phase' = phase /\ agenda' = agenda /\ graph' = graph /\ out' = out
      /\ pointersMap' = pointersMap /\ dctx' = dctx /\ objectsMap' = objectsMap
      /\ tell' = tell /\ memory' = memory /\ made' = made /\ dead' = dead /\ pair' = pair
      /\ status' = "ready" /\ reader' = reader
  BY DEF SetUp, readerVars, reader
<1>3. sctx' \in Contexts
  <2>1. call.version \in Nat /\ call.flags \in SUBSET DataFlags
        /\ call.endiannessDifference \in BOOLEAN
    BY CallsAssumption
  <2> QED  BY <1>1, <2>1 DEF SetUp, TypeOK, Contexts
<1>4. phase = "idle" /\ agenda = <<>> /\ Unread
  BY <1>1 DEF InOrder, TypeOK
<1>5. IsAgenda' /\ WrittenFrom' /\ IsMessage' /\ IsMemory' /\ Unread'
  BY <1>1, <1>2, <1>4 DEF IsAgenda, WrittenFrom, IsMessage, IsMemory, Unread, IsSequence,
     Elements
<1>6. InOrder'
  BY <1>1, <1>2, <1>4, <1>5 DEF InOrder
<1>7. TypeOK'
  BY <1>1, <1>2, <1>3, <1>4 DEF TypeOK, Statuses
<1>8. PointersStay' /\ dead' = {} /\ objectsMap' = <<>>
  BY <1>5 DEF PointersStay, Unread
<1> QED  BY <1>1, <1>2, <1>5, <1>6, <1>7, <1>8 DEF BodyInv, Typed, ReadInto

-----------------------------------------------------------------------------
(* The steps of the writer.                                                *)

(* The agenda of one struct, the latest version of what stands at a place. *)
LEMMA AgendaOfOne ==
  ASSUME NEW x
  PROVE  IsSequence(<<x>>) /\ Elements(<<x>>) = {x} /\ Elements(<<>>) = {} /\ IsSequence(<<>>)
BY DEF IsSequence, Elements

(* The call of serialize: the message has a header, and an item if it is taken. *)
LEMMA SerializeKeepsBodyInv ==
  ASSUME BodyInv, NEW g \in Graphs, Serialize(g)
  PROVE  BodyInv'
<1>1. Typed /\ TypeOK /\ IsMemory /\ InOrder /\ Unread /\ status = "ready"
      /\ out = <<>> /\ pointersMap = <<>>
  BY DEF BodyInv, Typed, Serialize, InOrder
<1> DEFINE context == SerializeContext(writer, RootType, sctx)
<1>2. /\ graph' = g /\ sctx' = context.ctx /\ out' = Header
      /\ pointersMap' = <<>> /\ dctx' = dctx /\ objectsMap' = objectsMap
      /\ tell' = tell /\ memory' = memory /\ made' = made /\ dead' = dead /\ pair' = pair
      /\ writer' = writer /\ reader' = reader
  BY <1>1 DEF Serialize, readerVars, reader, writer
<1>3. \/ /\ context.accepted /\ agenda' = <<Latest(writer, RootType, Root)>>
         /\ phase' = "write" /\ status' = "writing"
      \/ agenda' = <<>> /\ phase' = "idle" /\ status' = "refused"
  BY DEF Serialize, Stop
<1>4. IsBuild(writer) /\ RootType \in DOMAIN writer.private
  BY <1>1, SidesAreBuilds DEF Typed
<1>5. sctx' \in Contexts /\ (context.accepted => InMessage(writer, sctx', RootType))
  <2>1. sctx \in Contexts
    BY <1>1 DEF TypeOK
  <2> QED  BY <1>2, <1>4, <2>1, SerializeContextIs
<1>6. Len(Header) = 2 /\ IsSequence(Header) /\ \A token \in Elements(Header) : IsToken(token)
  BY DEF Header, IsSequence, Elements, IsToken
<1>7. IsAgenda' /\ WrittenFrom'
  <2>1. CASE agenda' = <<>> /\ phase' = "idle"
    BY <2>1 DEF IsAgenda, WrittenFrom, IsSequence, Elements
  <2>2. CASE /\ context.accepted /\ agenda' = <<Latest(writer, RootType, Root)>>
             /\ phase' = "write"
    <3>1. IsPlace(Root) /\ Root[1] = root /\ root \in Objects
      BY ObjectIsPlace DEF Root, Objects
    <3> DEFINE item == Latest(writer, RootType, Root)
    <3>2. IsItem(writer, sctx', made, item) /\ item.from = Root
      BY <1>4, <1>5, <2>2, <3>1, LatestIsItem
    <3>3. agenda' = <<item>>
      BY <2>2
    <3> HIDE DEF item
    <3>4. IsSequence(agenda') /\ Elements(agenda') = {item}
      BY <3>3, AgendaOfOne
    <3> QED  BY <1>2, <2>2, <3>1, <3>2, <3>4 DEF IsAgenda, WrittenFrom, Worker, WorkerContext
  <2> QED  BY <1>3, <2>1, <2>2
<1>8. IsMessage'
  BY <1>2, <1>3, <1>6 DEF IsMessage
<1>9. IsMemory' /\ Unread'
  BY <1>1, <1>2 DEF IsMemory, Unread
<1>10. InOrder'
  <2>1. phase' \in {"write", "written"} =>
          getOriginPrivateVersion(writer', RootType) <= sctx'.version
    BY <1>2, <1>3, <1>5 DEF InMessage
  <2>2. dctx'.version = Undefined
          \/ getOriginPrivateVersion(reader', RootType) <= dctx'.version
    BY <1>1, <1>2 DEF InOrder
  <2> QED  BY <1>3, <1>9, <2>1, <2>2 DEF InOrder
<1>11. TypeOK'
  <2>1. tell' \in 0..Len(out')
    BY <1>1, <1>2, <1>6 DEF TypeOK
  <2>2. DOMAIN pointersMap' = {} /\ DOMAIN objectsMap' = {} /\ dead' \subseteq 1..made'
    BY <1>2, <1>9 DEF Unread
  <2>3. agenda' # <<>> => phase' = "write"
    BY <1>3
  <2> QED  BY <1>1, <1>2, <1>3, <1>5, <2>1, <2>2, <2>3 DEF TypeOK, Statuses
<1>12. PointersStay' /\ dead' = {} /\ objectsMap' = <<>>
  BY <1>9 DEF PointersStay, Unread
<1> QED  BY <1>1, <1>2, <1>3, <1>7, <1>8, <1>9, <1>10, <1>11, <1>12 DEF BodyInv, Typed,
            ReadInto

(* What the writer is at                                                   *)
LEMMA WritersItem ==
  ASSUME BodyInv, phase = "write", agenda # <<>>
  PROVE  /\ IsItem(writer, sctx, made, Head(agenda))
         /\ Head(agenda).do # "element" => Head(agenda).from[1] \in Objects
         /\ sctx \in Contexts /\ IsBuild(writer) /\ IsSequence(out)
         /\ Len(out) \in Nat /\ Len(out) >= Len(Header)
         /\ \A p \in DOMAIN pointersMap : pointersMap[p] \in Len(Header)..Len(out)
<1>1. Typed /\ TypeOK /\ IsAgenda /\ WrittenFrom /\ IsMessage
  BY DEF BodyInv, Typed
<1>2. Head(agenda) \in Elements(agenda)
  BY <1>1, TailElements DEF IsAgenda
<1>3. IsBuild(writer)
  BY <1>1, SidesAreBuilds DEF Typed
<1> QED  BY <1>1, <1>2, <1>3
            DEF IsAgenda, WrittenFrom, IsMessage, IsSequence, TypeOK, Worker, WorkerContext

(* A step that writes tokens and numbers no object                         *)
LEMMA WriterWrites ==
  ASSUME BodyInv, phase = "write", agenda # <<>>,
         UNCHANGED <<pair, graph, sctx, pointersMap, readerVars>>,
         NEW items, IsSequence(items), Continue(items),
         \A x \in Elements(items) :
           IsItem(writer, sctx, made, x) /\ (x.do # "element" => x.from[1] \in Objects),
         NEW tokens, IsSequence(tokens), \A x \in Elements(tokens) : IsToken(x),
         Write(tokens)
  PROVE  BodyInv'
<1>1. /\ IsSequence(out) /\ Len(out) \in Nat /\ Len(tokens) \in Nat
      /\ \A p \in DOMAIN pointersMap : pointersMap[p] \in Len(Header)..Len(out)
  BY WritersItem DEF IsSequence
<1>2. out' = out \o tokens /\ pointersMap' = pointersMap
  BY DEF Write
<1>3. Len(out') = Len(out) + Len(tokens)
  BY <1>1, <1>2, Concatenated
<1>4. Len(Header) = 2
  BY DEF Header
<1>5. \A p \in DOMAIN pointersMap' : pointersMap'[p] \in Len(Header)..Len(out')
  BY <1>1, <1>2, <1>3, <1>4
<1>6. /\ UNCHANGED <<pair, graph, sctx, phase, status, readerVars>>
      /\ agenda' = items \o Tail(agenda)
  BY DEF Continue
<1> QED  BY <1>2, <1>5, <1>6, WriterGoesOn

(* A step that writes nothing                                              *)
LEMMA WriterPrepares ==
  ASSUME BodyInv, phase = "write", agenda # <<>>, UNCHANGED <<pair, writerVars, readerVars>>,
         NEW items, IsSequence(items), Continue(items),
         \A x \in Elements(items) :
           IsItem(writer, sctx, made, x) /\ (x.do # "element" => x.from[1] \in Objects)
  PROVE  BodyInv'
<1>1. out \in Seq(Elements(out))
  BY WritersItem, SequenceOfElements
<1>2. Write(<<>>)
  BY <1>1 DEF Write, writerVars
<1>3. UNCHANGED <<pair, graph, sctx, pointersMap, readerVars>>
  BY DEF writerVars
<1>4. IsSequence(<<>>) /\ Elements(<<>>) = {}
  BY AgendaOfOne
<1> QED  BY <1>2, <1>3, <1>4, WriterWrites

(* Values and structs that are copied                                      *)
LEMMA ValueIsSent ==
  ASSUME NEW item, IsPlace(item.from), item.from[1] \in Objects, NEW name
  PROVE  IsSent(Value(item, name))
<1>1. IsPlace(Part(item.from, name, 1)) /\ Part(item.from, name, 1)[1] \in Objects
  BY PartIsPlace
<1> QED  BY <1>1, GraphsAssumption DEF Value, IsSent

(* A struct that is copied is a token of numbers of the program.           *)
LEMMA BytesAreToken ==
  ASSUME NEW b, NEW item, IsPlace(item.from), item.from[1] \in Objects
  PROVE  IsToken(AsBytes(b, item))
<1> DEFINE bytes == [name \in Names(b, item.type, item.version) |-> Value(item, name)]
<1>1. \A name \in DOMAIN bytes : IsSent(bytes[name])
  BY ValueIsSent
<1>2. AsBytes(b, item) = <<"bytes", bytes>>
  BY DEF AsBytes
<1> HIDE DEF bytes
<1> QED  BY <1>1, <1>2 DEF IsToken

(* toOldStruct goes on with the struct of the version of the message.      *)
LEMMA ToOldStructKeepsBodyInv ==
  ASSUME BodyInv, ToOldStruct
  PROVE  BodyInv'
<1> DEFINE item == Head(agenda)
           target == VersionInMessage(writer, item, sctx)
           chain == ToVersion(writer, item.type, item.version, target)
           older == Struct(item.type, Last(chain), <<"temporary">>, item.from,
                           item.kept \cap Handed(writer, item.type, chain))
<1>1. /\ phase = "write" /\ agenda # <<>> /\ item.do = "struct" /\ target # item.version
      /\ UNCHANGED <<pair, writerVars, readerVars>>
      /\ \/ Stop("internal")
         \/ Continue(<<older>>)
         \/ Stop("no memory")
  BY DEF ToOldStruct, Doing, NoMemory
<1>2. IsItem(writer, sctx, made, item) /\ item.from[1] \in Objects /\ sctx \in Contexts
      /\ IsBuild(writer)
  BY <1>1, WritersItem
<1>3. CASE Continue(<<older>>)
  <2>1. /\ StructInMessage(writer, sctx, item.type, item.version) /\ IsPlace(item.from)
        /\ item.type \in DOMAIN writer.private
        /\ item.version \in ToSet(writer.private[item.type])
        /\ target \in ToSet(writer.private[item.type]) /\ sctx.notMatch /\ target < item.version
    BY <1>1, <1>2, ItemIsStruct, MessageVersion
  <2>2. Last(chain) = target
    BY <1>2, <2>1, VersionsDown
  <2>3. StructInMessage(writer, sctx, item.type, Last(chain))
    BY <2>1, <2>2 DEF StructInMessage
  <2>4. IsPlace(<<"temporary">>)
    BY ObjectIsPlace
  <2> HIDE DEF item, chain
  <2>5. IsItem(writer, sctx, made, older) /\ older.from = item.from
    BY <2>1, <2>3, <2>4, StructIsItem
  <2> HIDE DEF older
  <2> QED  BY <1>1, <1>2, <1>3, <2>5, AgendaOfOne, WriterPrepares
<1>4. ASSUME NEW s \in {"internal", "no memory"}, Stop(s)
      PROVE  BodyInv'
  <2>1. s \in Statuses \ {"none", "ready", "writing", "written", "reading", "received"}
    BY DEF Statuses
  <2> QED  BY <1>1, <1>4, <2>1, WriterStops DEF writerVars
<1> QED  BY <1>1, <1>3, <1>4

(* serialize of a struct copies it, goes on with its members, or refuses its flags. *)
LEMMA SerializeStructKeepsBodyInv ==
  ASSUME BodyInv, SerializeStruct
  PROVE  BodyInv'
<1> DEFINE item == Head(agenda)
<1>1. /\ phase = "write" /\ agenda # <<>> /\ item.do = "struct"
      /\ VersionInMessage(writer, item, sctx) = item.version
      /\ UNCHANGED <<pair, graph, sctx, pointersMap, readerVars>>
      /\ \/ Stop("flags") /\ UNCHANGED out
         \/ Write(<<AsBytes(writer, item)>>) /\ Continue(<<>>)
         \/ Continue(MembersOf(writer, item)) /\ UNCHANGED out
  BY DEF SerializeStruct, Doing
<1>2. IsItem(writer, sctx, made, item) /\ item.from[1] \in Objects /\ sctx \in Contexts
      /\ IsBuild(writer)
  BY <1>1, WritersItem
<1>3. CASE Stop("flags") /\ UNCHANGED out
  <2>1. "flags" \in Statuses \ {"none", "ready", "writing", "written", "reading", "received"}
    BY DEF Statuses
  <2> QED  BY <1>1, <1>3, <2>1, WriterStops
<1>4. CASE Write(<<AsBytes(writer, item)>>) /\ Continue(<<>>)
  <2>1. IsToken(AsBytes(writer, item))
    BY <1>1, <1>2, ItemIsStruct, BytesAreToken
  <2> QED  BY <1>1, <1>4, <2>1, AgendaOfOne, WriterWrites
<1>5. CASE Continue(MembersOf(writer, item)) /\ UNCHANGED out
  <2>1. /\ IsSequence(MembersOf(writer, item))
        /\ \A x \in Elements(MembersOf(writer, item)) :
             IsItem(writer, sctx, made, x) /\ x.from = item.from /\ x.at = item.at
    BY <1>1, <1>2, MembersAreItems
  <2>2. \A x \in Elements(MembersOf(writer, item)) :
          IsItem(writer, sctx, made, x) /\ (x.do # "element" => x.from[1] \in Objects)
    BY <1>2, <2>1
  <2>3. UNCHANGED <<pair, writerVars, readerVars>>
    BY <1>1, <1>5 DEF writerVars
  <2> QED  BY <1>1, <1>5, <2>1, <2>2, <2>3, WriterPrepares
<1> QED  BY <1>1, <1>3, <1>4, <1>5

(* serialize of a member goes on with the struct that it is.               *)
LEMMA SerializeMemberKeepsBodyInv ==
  ASSUME BodyInv, SerializeMember
  PROVE  BodyInv'
<1> DEFINE item == Head(agenda)
           sub == SubStruct(writer, item, 1)
<1>1. /\ phase = "write" /\ agenda # <<>> /\ item.do = "member"
      /\ UNCHANGED <<pair, writerVars, readerVars>> /\ Continue(<<sub>>)
  BY DEF SerializeMember, Doing
<1>2. IsItem(writer, sctx, made, item) /\ item.from[1] \in Objects
  BY <1>1, WritersItem
<1>3. IsItem(writer, sctx, made, sub) /\ sub.from[1] \in Objects
  BY <1>1, <1>2, SubStructIsItem
<1> HIDE DEF sub
<1> QED  BY <1>1, <1>3, AgendaOfOne, WriterPrepares

(* serialize of a number writes it.                                        *)
LEMMA SerializeNumberKeepsBodyInv ==
  ASSUME BodyInv, SerializeNumber
  PROVE  BodyInv'
<1> DEFINE item == Head(agenda)
           value == Value(item, item.member.name)
<1>1. /\ phase = "write" /\ agenda # <<>> /\ item.do = "number"
      /\ Write(<<<<"number", value>>>>) /\ Continue(<<>>)
      /\ UNCHANGED <<pair, graph, sctx, pointersMap, readerVars>>
  BY DEF SerializeNumber, Doing
<1>2. IsItem(writer, sctx, made, item) /\ item.from[1] \in Objects
  BY <1>1, WritersItem
<1>3. IsSent(value)
  BY <1>1, <1>2, ItemIsMember, ValueIsSent DEF MemberKinds
<1> HIDE DEF value
<1>4. IsToken(<<"number", value>>)
  BY <1>3 DEF IsToken
<1> QED  BY <1>1, <1>4, AgendaOfOne, WriterWrites

(* serialize of an array copies its elements or goes on with them.         *)
LEMMA SerializeArrayKeepsBodyInv ==
  ASSUME BodyInv, SerializeArray
  PROVE  BodyInv'
<1> DEFINE item == Head(agenda)
           m == item.member
           elements == [j \in 1..m.n |-> SubStruct(writer, item, j)]
           bytes == [j \in 1..m.n |-> AsBytes(writer, elements[j])]
<1>1. /\ phase = "write" /\ agenda # <<>> /\ item.do = "array"
      /\ UNCHANGED <<pair, graph, sctx, pointersMap, readerVars>>
      /\ \/ Write(bytes) /\ Continue(<<>>)
         \/ Continue(FlattenSeq([j \in 1..m.n |->
                       <<[do |-> "element", at |-> elements[j].at], elements[j]>>]))
            /\ UNCHANGED out
  BY DEF SerializeArray, Doing
<1>2. IsItem(writer, sctx, made, item) /\ item.from[1] \in Objects /\ IsBuild(writer)
  BY <1>1, WritersItem
<1>3. m.n \in Nat
  BY <1>1, <1>2, ArrayIs
<1>4. CASE Write(bytes) /\ Continue(<<>>)
  <2>1. ASSUME NEW j \in 1..m.n
        PROVE  IsToken(bytes[j])
    <3>1. /\ IsItem(writer, sctx, made, SubStruct(writer, item, j))
          /\ SubStruct(writer, item, j).from[1] \in Objects
          /\ SubStruct(writer, item, j).do = "struct"
      BY <1>1, <1>2, SubStructIsItem
    <3>2. IsPlace(SubStruct(writer, item, j).from)
      BY <3>1, ItemIsStruct
    <3>3. IsToken(AsBytes(writer, SubStruct(writer, item, j)))
      BY <3>1, <3>2, BytesAreToken
    <3> QED  BY <3>3
  <2>2. IsSequence(bytes) /\ Len(bytes) = m.n
    BY <1>3 DEF IsSequence
  <2> HIDE DEF bytes
  <2>3. \A x \in Elements(bytes) : IsToken(x)
    BY <2>1, <2>2 DEF Elements
  <2> QED  BY <1>1, <1>4, <2>2, <2>3, AgendaOfOne, WriterWrites
<1>5. CASE /\ Continue(FlattenSeq([j \in 1..m.n |->
                       <<[do |-> "element", at |-> elements[j].at], elements[j]>>]))
           /\ UNCHANGED out
  <2> DEFINE items == FlattenSeq(OneByOne(writer, item))
  <2>1. [j \in 1..m.n |-> <<[do |-> "element", at |-> elements[j].at], elements[j]>>]
        = OneByOne(writer, item)
    BY DEF OneByOne
  <2>2. Continue(items)
    BY <1>5, <2>1
  <2>3. /\ IsSequence(items)
        /\ \A x \in Elements(items) :
             IsItem(writer, sctx, made, x) /\ (x.do # "element" => x.from[1] = item.from[1])
    BY <1>1, <1>2, ElementsAreItems
  <2> HIDE DEF items
  <2>4. \A x \in Elements(items) :
          IsItem(writer, sctx, made, x) /\ (x.do # "element" => x.from[1] \in Objects)
    BY <1>2, <2>3
  <2>5. UNCHANGED <<pair, writerVars, readerVars>>
    BY <1>1, <1>5 DEF writerVars
  <2> QED  BY <1>1, <2>2, <2>3, <2>4, <2>5, WriterPrepares
<1> QED  BY <1>1, <1>4, <1>5

(* A step that numbers an object                                           *)
LEMMA SerializeElementKeepsBodyInv ==
  ASSUME BodyInv, SerializeElement
  PROVE  BodyInv'
<1>1. /\ phase = "write" /\ agenda # <<>> /\ Continue(<<>>)
      /\ UNCHANGED <<pair, graph, sctx, out, readerVars>>
      /\ \/ pointersMap' = With(pointersMap, Head(agenda).at, Len(out))
         \/ pointersMap' = pointersMap
  BY DEF SerializeElement, Doing
<1>2. /\ Len(out) \in Nat /\ Len(out) >= Len(Header) /\ IsSequence(out)
      /\ \A p \in DOMAIN pointersMap : pointersMap[p] \in Len(Header)..Len(out)
  BY <1>1, WritersItem
<1>3. Len(out) \in Len(Header)..Len(out)
  BY <1>2 DEF Header
<1>4. \A p \in DOMAIN pointersMap' : pointersMap'[p] \in Len(Header)..Len(out')
  BY <1>1, <1>2, <1>3 DEF With
<1>5. out \in Seq(Elements(out))
  BY <1>2, SequenceOfElements
<1>6. out' = out \o <<>>
  BY <1>1, <1>5
<1>7. /\ UNCHANGED <<pair, graph, sctx, phase, status, readerVars>>
      /\ agenda' = <<>> \o Tail(agenda)
  BY <1>1 DEF Continue
<1> QED  BY <1>1, <1>4, <1>6, <1>7, AgendaOfOne, WriterGoesOn

(* What a pointer of the writer leads to                                   *)
LEMMA PointeeIs ==
  ASSUME BodyInv, NEW item, Pointee(item) # Null
  PROVE  IsPlace(Pointee(item)) /\ Pointee(item)[1] \in Objects
<1> DEFINE slot == Part(item.from, item.member.name, 1)
<1>1. graph \in Graphs \cup {<<>>}
  BY DEF BodyInv, Typed
<1>2. slot \in DOMAIN graph /\ Pointee(item) = graph[slot]
  BY DEF Pointee, At, Null
<1>3. graph \in Graphs
  BY <1>1, <1>2
<1> QED  BY <1>2, <1>3, GraphsAssumption DEF Objects

(* serialize of a pointer writes a prefix, and goes on with an object not met before. *)
LEMMA SerializePointerKeepsBodyInv ==
  ASSUME BodyInv, SerializePointer
  PROVE  BodyInv'
<1> DEFINE item == Head(agenda)
           p == Pointee(item)
           added == addPointerToMap(p)
           object == <<Latest(writer, item.member.type, p)>>
<1>1. /\ phase = "write" /\ agenda # <<>> /\ item.do = "pointer"
      /\ UNCHANGED <<pair, graph, sctx, readerVars>>
      /\ \/ Stop("not supported") /\ UNCHANGED <<out, pointersMap>>
         \/ /\ Write(<<<<"size", added.prefix>>>>)
            /\ pointersMap' = IF added.new THEN With(pointersMap, p, Len(out')) ELSE pointersMap
            /\ Continue(IF added.new THEN object ELSE <<>>)
         \/ /\ Write(<<<<"flag", IF p = Null THEN 0 ELSE 1>>>>)
            /\ Continue(IF p = Null THEN <<>> ELSE object)
            /\ UNCHANGED pointersMap
  BY DEF SerializePointer, Doing
<1>2. /\ IsItem(writer, sctx, made, item) /\ item.from[1] \in Objects /\ IsBuild(writer)
      /\ IsSequence(out) /\ Len(out) \in Nat /\ Len(out) >= Len(Header)
      /\ \A x \in DOMAIN pointersMap : pointersMap[x] \in Len(Header)..Len(out)
  BY <1>1, WritersItem
<1>3. InMessage(writer, sctx, item.member.type)
  BY <1>1, <1>2, ItemIsMember DEF MemberKinds, MemberInMessage
<1>4. ASSUME p # Null
      PROVE  \A x \in Elements(object) : IsItem(writer, sctx, made, x) /\ x.from[1] \in Objects
  <2>1. IsPlace(p) /\ p[1] \in Objects
    BY <1>4, PointeeIs
  <2> DEFINE x == Latest(writer, item.member.type, p)
  <2>2. IsItem(writer, sctx, made, x) /\ x.from[1] \in Objects
    BY <1>2, <1>3, <2>1, LatestIsItem
  <2>3. object = <<x>>
    OBVIOUS
  <2> HIDE DEF x, object
  <2> QED  BY <2>2, <2>3, AgendaOfOne
<1>5. IsSequence(object)
  BY AgendaOfOne
<1>6. CASE Stop("not supported") /\ UNCHANGED <<out, pointersMap>>
  <2>1. "not supported" \in
          Statuses \ {"none", "ready", "writing", "written", "reading", "received"}
    BY DEF Statuses
  <2> QED  BY <1>1, <1>6, <2>1, WriterStops
<1>7. CASE /\ Write(<<<<"size", added.prefix>>>>)
           /\ pointersMap' = IF added.new THEN With(pointersMap, p, Len(out')) ELSE pointersMap
           /\ Continue(IF added.new THEN object ELSE <<>>)
  <2> DEFINE tokens == <<<<"size", added.prefix>>>>
             items == IF added.new THEN object ELSE <<>>
  <2>1. added.prefix \in Nat /\ (added.new => p # Null)
    <3>1. Len(Header) = 2
      BY DEF Header
    <3> QED  BY <1>2, <3>1 DEF addPointerToMap
  <2>2. IsSequence(tokens) /\ \A x \in Elements(tokens) : IsToken(x)
    <3>1. IsToken(<<"size", added.prefix>>)
      <4> HIDE DEF added
      <4> QED  BY <2>1 DEF IsToken
    <3> QED  BY <3>1, AgendaOfOne
  <2>3. /\ IsSequence(items)
        /\ \A x \in Elements(items) :
             IsItem(writer, sctx, made, x) /\ (x.do # "element" => x.from[1] \in Objects)
    <3> HIDE DEF object, added
    <3> QED  BY <1>4, <1>5, <2>1, AgendaOfOne
  <2>4. out' = out \o tokens /\ Len(tokens) = 1
    BY <1>7 DEF Write
  <2> HIDE DEF tokens
  <2>5. Len(out') = Len(out) + 1
    BY <1>2, <2>2, <2>4, Concatenated
  <2>6. \A x \in DOMAIN pointersMap' : pointersMap'[x] \in Len(Header)..Len(out')
    <3> HIDE DEF added, p
    <3>1. Len(Header) = 2
      BY DEF Header
    <3>2. Len(out') \in Len(Header)..Len(out')
      BY <1>2, <2>5, <3>1
    <3>3. \A x \in DOMAIN pointersMap : pointersMap[x] \in Len(Header)..Len(out')
      BY <1>2, <2>5, <3>1
    <3>4. CASE pointersMap' = With(pointersMap, p, Len(out'))
      BY <3>2, <3>3, <3>4 DEF With
    <3>5. CASE pointersMap' = pointersMap
      BY <3>3, <3>5
    <3> QED  BY <1>7, <3>4, <3>5
  <2>7. UNCHANGED <<pair, graph, sctx, phase, status, readerVars>>
        /\ agenda' = items \o Tail(agenda)
    BY <1>1, <1>7 DEF Continue
  <2> HIDE DEF items
  <2> QED  BY <1>1, <2>2, <2>3, <2>4, <2>6, <2>7, WriterGoesOn
<1>8. CASE /\ Write(<<<<"flag", IF p = Null THEN 0 ELSE 1>>>>)
           /\ Continue(IF p = Null THEN <<>> ELSE object)
           /\ UNCHANGED pointersMap
  <2> DEFINE flag == IF p = Null THEN 0 ELSE 1
             items == IF p = Null THEN <<>> ELSE object
  <2>1. IsToken(<<"flag", flag>>)
    <3>1. flag \in {0, 1}
      OBVIOUS
    <3> HIDE DEF flag
    <3> QED  BY <3>1 DEF IsToken
  <2>2. /\ IsSequence(items)
        /\ \A x \in Elements(items) :
             IsItem(writer, sctx, made, x) /\ (x.do # "element" => x.from[1] \in Objects)
    <3> HIDE DEF object, p
    <3> QED  BY <1>4, <1>5, AgendaOfOne
  <2>3. Write(<<<<"flag", flag>>>>) /\ Continue(items)
    BY <1>8
  <2> HIDE DEF flag, items
  <2> QED  BY <1>1, <1>8, <2>1, <2>2, <2>3, AgendaOfOne, WriterWrites
<1> QED  BY <1>1, <1>6, <1>7, <1>8

(* The message is complete.                                                *)
LEMMA EndOfWritingKeepsBodyInv ==
  ASSUME BodyInv, EndOfWriting
  PROVE  BodyInv'
<1>1. Typed /\ TypeOK /\ IsMessage /\ IsMemory /\ InOrder /\ Unread
  BY DEF BodyInv, Typed, InOrder, EndOfWriting
<1>2. /\ phase' = "written" /\ status' = "written" /\ agenda' = <<>> /\ pair' = pair
      /\ graph' = graph /\ sctx' = sctx /\ pointersMap' = pointersMap /\ out' = out
      /\ dctx' = dctx /\ objectsMap' = objectsMap /\ tell' = tell /\ memory' = memory
      /\ made' = made /\ dead' = dead /\ writer' = writer /\ reader' = reader
      /\ phase = "write" /\ status = "writing"
  BY <1>1 DEF EndOfWriting, writerVars, readerVars, writer, reader, InOrder
<1>3. IsAgenda' /\ WrittenFrom' /\ IsMessage' /\ IsMemory' /\ Unread'
  BY <1>1, <1>2 DEF IsAgenda, WrittenFrom, IsMessage, IsMemory, Unread, IsSequence, Elements
<1>4. InOrder'
  BY <1>1, <1>2, <1>3 DEF InOrder
<1>5. TypeOK'
  BY <1>1, <1>2 DEF TypeOK, Statuses
<1>6. PointersStay' /\ dead' = {} /\ objectsMap' = <<>>
  BY <1>3 DEF PointersStay, Unread
<1> QED  BY <1>1, <1>2, <1>3, <1>4, <1>5, <1>6 DEF BodyInv, Typed, ReadInto

-----------------------------------------------------------------------------
(* The steps of the reader.                                                *)

(* What the reader is at                                                   *)
LEMMA ReadersItem ==
  ASSUME BodyInv, phase = "read", agenda # <<>>
  PROVE  /\ IsItem(reader, dctx, made, Head(agenda)) /\ Head(agenda).at[1] \in 0..made
         /\ dctx \in Contexts /\ IsBuild(reader) /\ IsSequence(out)
         /\ Len(out) \in Nat /\ tell \in Nat /\ tell >= Len(Header) /\ tell <= Len(out)
         /\ made \in Nat /\ dead \subseteq 1..made /\ IsMemory
         /\ DOMAIN objectsMap \subseteq Len(Header)..Len(out)
         /\ \A i \in 1..Len(out) : IsToken(out[i])
<1>1. Typed /\ TypeOK /\ IsAgenda /\ ReadInto /\ IsMessage /\ IsMemory
  BY DEF BodyInv, Typed
<1>2. Head(agenda) \in Elements(agenda)
  BY <1>1, TailElements DEF IsAgenda
<1>3. IsBuild(reader)
  BY <1>1, SidesAreBuilds DEF Typed
<1>4. \A i \in 1..Len(out) : out[i] \in Elements(out)
  BY DEF Elements
<1>5. Len(out) \in Nat /\ tell \in 0..Len(out)
  BY <1>1 DEF IsMessage, IsSequence, TypeOK
<1> QED  BY <1>1, <1>2, <1>3, <1>4, <1>5
            DEF IsAgenda, ReadInto, IsMessage, IsMemory, TypeOK, Worker, WorkerContext

(* The temporaries of an agenda, which objects were made to be             *)
LEMMA TemporariesAre ==
  ASSUME BodyInv, phase = "read"
  PROVE  /\ Temporaries = {x.temporary[1] : x \in {y \in Elements(agenda) : y.do = "convert"}}
         /\ Temporaries \subseteq 1..made
         /\ ~dctx.notMatch => Temporaries = {}
<1>1. IsAgenda
  BY DEF BodyInv, Typed
<1>2. ToSet(agenda) = Elements(agenda)
  BY <1>1, SequenceOfElements, SequenceIs DEF IsAgenda
<1>3. Temporaries = {x.temporary[1] : x \in {y \in Elements(agenda) : y.do = "convert"}}
  BY <1>2 DEF Temporaries
<1>4. ASSUME NEW x \in Elements(agenda), x.do = "convert"
      PROVE  x.temporary[1] \in 1..made /\ dctx.notMatch
  <2>1. IsItem(reader, dctx, made, x)
    BY <1>1 DEF IsAgenda, Worker, WorkerContext
  <2> QED  BY <1>4, <2>1, ItemIsConvert
<1> QED  BY <1>3, <1>4

(* After a step there are those that its items add.                        *)
LEMMA TemporariesAfter ==
  ASSUME BodyInv, phase = "read", agenda # <<>>,
         NEW items, IsSequence(items), agenda' = items \o Tail(agenda)
  PROVE  Temporaries' \subseteq
           Temporaries \cup {x.temporary[1] : x \in {y \in Elements(items) : y.do = "convert"}}
<1>1. IsAgenda
  BY DEF BodyInv, Typed
<1>2. IsSequence(agenda') /\ Elements(agenda') \subseteq Elements(items) \cup Elements(agenda)
  BY <1>1, Continued DEF IsAgenda
<1>3. ToSet(agenda') = Elements(agenda')
  BY <1>2, SequenceOfElements, SequenceIs
<1>4. Temporaries' = {x.temporary[1] : x \in {y \in Elements(agenda') : y.do = "convert"}}
  BY <1>3 DEF Temporaries
<1> QED  BY <1>2, <1>4, TemporariesAre

(* Pointers that stay go on to.                                            *)
LEMMA StillStays ==
  ASSUME NEW value, Stays(value), made \in Nat, made' \in Nat, made <= made',
         dead' \cup Temporaries' \subseteq dead \cup Temporaries \cup {made + 1}
  PROVE  Stays(value)'
<1>1. 0..made \subseteq 0..made' /\ made + 1 \notin 0..made
  OBVIOUS
<1>2. CASE value[1] \in (0..made) \ (dead \cup Temporaries)
  <2>1. value[1] \in 0..made' /\ value[1] # made + 1
    BY <1>1, <1>2
  <2>2. value[1] \notin dead' \cup Temporaries'
    BY <1>2, <2>1
  <2> QED  BY <2>1, <2>2 DEF Stays
<1> QED  BY <1>2 DEF Stays

(* A step of the reader after which no object is a temporary that was not  *)
(* one, and its items go where the one before went                         *)
LEMMA ReaderReads ==
  ASSUME BodyInv, phase = "read", agenda # <<>>,
         UNCHANGED <<pair, writerVars, dctx, made, dead>>,
         NEW items, IsSequence(items), Continue(items),
         \A x \in Elements(items) :
           IsItem(reader, dctx, made, x) /\ x.at[1] \in 0..made /\ x.do # "convert",
         tell' \in tell..Len(out), IsMemory', DOMAIN objectsMap' \subseteq Len(Header)..Len(out),
         "checkRecursivePointers" \notin dctx.flags => objectsMap' = <<>>,
         ~ElementsNumbered =>
           /\ \A slot \in DOMAIN memory' : Stays(memory'[slot])
           /\ \A offset \in DOMAIN objectsMap' : Stays(objectsMap'[offset])
  PROVE  BodyInv'
<1>1. agenda' = items \o Tail(agenda) /\ UNCHANGED <<phase, status>>
  BY DEF Continue
<1>2. made \in Nat /\ dead \subseteq 1..made
  BY ReadersItem
<1>3. Temporaries' \subseteq Temporaries
  BY <1>1, TemporariesAfter
<1>4. \A value : Stays(value) => Stays(value)'
  BY <1>2, <1>3, StillStays
<1>5. ~ElementsNumbered => PointersStay'
  BY <1>4 DEF PointersStay
<1>6. /\ made' = made /\ made' \in Nat /\ made <= made' /\ dead' = dead /\ dead' \subseteq 1..made'
      /\ \A x \in Elements(items) : IsItem(reader, dctx, made', x) /\ x.at[1] \in 0..made'
  BY <1>2
<1> QED  BY <1>1, <1>5, <1>6, ReaderGoesOn

(* A step that reads nothing                                               *)
LEMMA ReaderPrepares ==
  ASSUME BodyInv, phase = "read", agenda # <<>>,
         UNCHANGED <<pair, writerVars, readerVars>>,
         NEW items, IsSequence(items), Continue(items),
         \A x \in Elements(items) :
           IsItem(reader, dctx, made, x) /\ x.at[1] \in 0..made /\ x.do # "convert"
  PROVE  BodyInv'
<1>1. UNCHANGED <<dctx, objectsMap, tell, memory, made, dead>>
  BY DEF readerVars
<1>2. tell \in Nat /\ Len(out) \in Nat /\ tell <= Len(out) /\ IsMemory
      /\ DOMAIN objectsMap \subseteq Len(Header)..Len(out)
  BY ReadersItem
<1>3. tell' \in tell..Len(out)
  BY <1>1, <1>2
<1>4. IsMemory'
  BY <1>1, <1>2 DEF IsMemory
<1>5. /\ "checkRecursivePointers" \notin dctx.flags => objectsMap = <<>>
      /\ ~ElementsNumbered => PointersStay
  BY DEF BodyInv
<1> QED  BY <1>1, <1>2, <1>3, <1>4, <1>5, ReaderReads DEF PointersStay

(* A step that gives up and has made nothing                               *)
LEMMA ReaderGivesUp ==
  ASSUME BodyInv, phase = "read", agenda # <<>>,
         UNCHANGED <<pair, writerVars, dctx, made, objectsMap, tell, memory>>,
         NEW s \in Statuses \ {"none", "ready", "writing", "written", "reading", "received"},
         Abandon(s)
  PROVE  BodyInv'
<1>1. tell \in Nat /\ Len(out) \in Nat /\ tell <= Len(out) /\ IsMemory
      /\ DOMAIN objectsMap \subseteq Len(Header)..Len(out)
  BY ReadersItem
<1>2. tell' \in tell..Len(out)
  BY <1>1
<1>3. IsMemory'
  BY <1>1 DEF IsMemory
<1>4. /\ "checkRecursivePointers" \notin dctx.flags => objectsMap = <<>>
      /\ ~ElementsNumbered => PointersStay
  BY DEF BodyInv
<1> QED  BY <1>1, <1>2, <1>3, <1>4, ReaderStops DEF PointersStay

(* The call of deserialize: the message is taken or refused.               *)
LEMMA DeserializeKeepsBodyInv ==
  ASSUME BodyInv, NEW added \in BOOLEAN, Deserialize(added)
  PROVE  BodyInv'
<1> DEFINE context == DeserializeContext(reader, RootType, dctx, sctx.version, sctx.flags,
                                         sctx.endiannessDifference, added)
<1>1. Typed /\ TypeOK /\ IsAgenda /\ IsMessage /\ IsMemory /\ InOrder /\ Unread
      /\ phase = "written" /\ status = "written"
  BY DEF BodyInv, Typed, InOrder, Deserialize
<1>2. /\ dctx' = context.ctx /\ tell' = Len(Header) /\ pair' = pair /\ graph' = graph
      /\ sctx' = sctx /\ pointersMap' = pointersMap /\ out' = out
      /\ objectsMap' = objectsMap /\ memory' = memory
      /\ made' = made /\ dead' = dead /\ writer' = writer /\ reader' = reader
  BY DEF Deserialize, writerVars, writer, reader
<1>3. \/ /\ context.accepted /\ agenda' = <<Latest(reader, RootType, TheCopy)>>
         /\ phase' = "read" /\ status' = "reading"
      \/ agenda' = <<>> /\ phase' = "idle" /\ status' = "refused"
  BY DEF Deserialize, Stop
<1>4. IsBuild(reader) /\ RootType \in DOMAIN reader.private
  BY <1>1, SidesAreBuilds DEF Typed
<1>5. /\ dctx' \in Contexts
      /\ context.accepted => InMessage(reader, dctx', RootType)
      /\ getOriginPrivateVersion(reader, RootType) <= dctx'.version
  <2>1. sctx \in Contexts /\ dctx \in Contexts
    BY <1>1 DEF TypeOK
  <2>2. /\ dctx.version = Undefined \/ getOriginPrivateVersion(reader, RootType) <= dctx.version
        /\ getOriginPrivateVersion(writer, RootType) <= sctx.version
    BY <1>1 DEF InOrder
  <2>3. getOriginPrivateVersion(reader, RootType) <= getOriginPrivateVersion(writer, RootType)
    BY <1>1, OriginAssumption DEF Typed, writer, reader
  <2>4. /\ getOriginPrivateVersion(writer, RootType) \in Nat
        /\ getOriginPrivateVersion(reader, RootType) \in Nat /\ sctx.version \in Nat
    BY <1>1, <2>1, SidesAreBuilds, PrivateVersions DEF Typed, Contexts
  <2>5. getOriginPrivateVersion(reader, RootType) <= sctx.version
    BY <2>2, <2>3, <2>4
  <2>6. /\ context.ctx \in Contexts /\ context.ctx.version = sctx.version
        /\ context.accepted => InMessage(reader, context.ctx, RootType)
    BY <1>4, <2>1, <2>2, DeserializeContextIs
  <2> QED  BY <1>2, <2>5, <2>6
<1>6. IsAgenda' /\ WrittenFrom' /\ ReadInto'
  <2>1. CASE agenda' = <<>> /\ phase' = "idle"
    BY <2>1 DEF IsAgenda, WrittenFrom, ReadInto, IsSequence, Elements
  <2>2. CASE /\ context.accepted /\ agenda' = <<Latest(reader, RootType, TheCopy)>>
             /\ phase' = "read"
    <3> DEFINE item == Latest(reader, RootType, TheCopy)
    <3>1. IsPlace(TheCopy) /\ TheCopy[1] = 0
      BY ObjectIsPlace DEF TheCopy
    <3>2. IsItem(reader, dctx', made, item) /\ item.at = TheCopy
      BY <1>4, <1>5, <2>2, <3>1, LatestIsItem
    <3>3. agenda' = <<item>>
      BY <2>2
    <3> HIDE DEF item
    <3>4. IsSequence(agenda') /\ Elements(agenda') = {item}
      BY <3>3, AgendaOfOne
    <3>5. 0 \in 0..made
      BY <1>1 DEF IsMemory
    <3> QED  BY <1>2, <2>2, <3>1, <3>2, <3>4, <3>5
                DEF IsAgenda, WrittenFrom, ReadInto, Worker, WorkerContext
  <2> QED  BY <1>3, <2>1, <2>2
<1>7. IsMessage'
  BY <1>1, <1>2, <1>3 DEF IsMessage, Header
<1>8. IsMemory' /\ Unread'
  BY <1>1, <1>2 DEF IsMemory, Unread
<1>9. InOrder'
  BY <1>1, <1>2, <1>3, <1>5, <1>8 DEF InOrder
<1>10. TypeOK'
  <2>1. tell' \in 0..Len(out')
    BY <1>1, <1>2 DEF IsMessage, Header, IsSequence
  <2>2. DOMAIN objectsMap' = {} /\ dead' \subseteq 1..made'
    BY <1>8 DEF Unread
  <2>3. agenda' # <<>> => phase' = "read"
    BY <1>3
  <2> QED  BY <1>1, <1>2, <1>3, <1>5, <2>1, <2>2, <2>3 DEF TypeOK, Statuses
<1>11. PointersStay' /\ dead' = {} /\ objectsMap' = <<>>
  BY <1>8 DEF PointersStay, Unread
<1> QED  BY <1>1, <1>2, <1>6, <1>7, <1>8, <1>9, <1>10, <1>11 DEF BodyInv, Typed

(* The program is left with what was read.                                 *)
LEMMA EndOfReadingKeepsBodyInv ==
  ASSUME BodyInv, EndOfReading
  PROVE  BodyInv'
<1>1. Typed /\ TypeOK /\ IsMessage /\ IsMemory /\ InOrder /\ phase = "read" /\ status = "reading"
  BY DEF BodyInv, Typed, InOrder, EndOfReading
<1>2. /\ phase' = "idle" /\ status' = "received" /\ agenda' = <<>> /\ agenda = <<>>
      /\ pair' = pair /\ graph' = graph /\ sctx' = sctx /\ pointersMap' = pointersMap
      /\ out' = out /\ dctx' = dctx /\ objectsMap' = objectsMap /\ tell' = tell
      /\ memory' = memory /\ made' = made /\ dead' = dead
      /\ writer' = writer /\ reader' = reader
  BY DEF EndOfReading, writerVars, readerVars, writer, reader
<1>3. IsAgenda' /\ WrittenFrom' /\ ReadInto' /\ IsMessage' /\ IsMemory'
  BY <1>1, <1>2
     DEF IsAgenda, WrittenFrom, ReadInto, IsMessage, IsMemory, IsSequence, Elements
<1>4. InOrder'
  BY <1>1, <1>2 DEF InOrder
<1>5. TypeOK'
  BY <1>1, <1>2 DEF TypeOK, Statuses
<1>6. (PointersStay' <=> PointersStay) /\ (ElementsNumbered' <=> ElementsNumbered)
  BY <1>2 DEF PointersStay, Stays, Temporaries, ElementsNumbered
<1> QED  BY <1>1, <1>2, <1>3, <1>4, <1>5, <1>6 DEF BodyInv, Typed

(* The object of the version of the message is made, to be converted.      *)
LEMMA FromOldStructKeepsBodyInv ==
  ASSUME BodyInv, FromOldStruct
  PROVE  BodyInv'
<1> DEFINE item == Head(agenda)
           target == VersionInMessage(reader, item, dctx)
           chain == FromVersion(reader, item.type, item.version, target)
           temporary == <<made + 1>>
           older == Whole(reader, item.type, Head(chain), temporary, temporary)
           convert == [do |-> "convert", type |-> item.type, version |-> item.version,
                       at |-> item.at, temporary |-> temporary, chain |-> chain]
<1>1. /\ phase = "read" /\ agenda # <<>> /\ item.do = "struct" /\ target # item.version
      /\ UNCHANGED <<pair, writerVars, dctx, objectsMap, tell, memory>>
      /\ \/ Continue(<<older, convert>>) /\ made' = made + 1 /\ UNCHANGED dead
         \/ Abandon("no memory") /\ UNCHANGED made
  BY DEF FromOldStruct, Doing
<1>2. IsItem(reader, dctx, made, item) /\ item.at[1] \in 0..made /\ dctx \in Contexts
      /\ IsBuild(reader) /\ made \in Nat /\ dead \subseteq 1..made /\ IsMemory
      /\ tell \in Nat /\ Len(out) \in Nat /\ tell <= Len(out)
      /\ DOMAIN objectsMap \subseteq Len(Header)..Len(out)
  BY <1>1, ReadersItem
<1>3. CASE Abandon("no memory") /\ UNCHANGED made
  <2>1. "no memory" \in Statuses \ {"none", "ready", "writing", "written", "reading", "received"}
    BY DEF Statuses
  <2> QED  BY <1>1, <1>3, <2>1, ReaderGivesUp
<1>4. CASE Continue(<<older, convert>>) /\ made' = made + 1 /\ UNCHANGED dead
  <2>1. /\ StructInMessage(reader, dctx, item.type, item.version) /\ IsPlace(item.at)
        /\ item.type \in DOMAIN reader.private
        /\ item.version \in ToSet(reader.private[item.type])
        /\ target \in ToSet(reader.private[item.type]) /\ dctx.notMatch /\ target < item.version
    BY <1>1, <1>2, ItemIsStruct, MessageVersion
  <2>2. Head(chain) = target
    BY <1>2, <2>1, VersionsUp
  <2>3. StructInMessage(reader, dctx, item.type, Head(chain))
    BY <2>1, <2>2 DEF StructInMessage
  <2>4. IsPlace(temporary) /\ temporary[1] = made + 1
    BY ObjectIsPlace
  <2>5. made' \in Nat /\ made <= made' /\ made + 1 \in 1..made' /\ item.at[1] \in 0..made'
        /\ made + 1 \in 0..made' /\ dead \subseteq 1..made'
    BY <1>2, <1>4
  <2>6. /\ convert.do = "convert" /\ convert.at = item.at /\ convert.temporary = temporary
        /\ IsItem(reader, dctx, made', convert)
    BY <2>1, <2>5 DEF IsItem
  <2> HIDE DEF item, chain, target
  <2>7. IsItem(reader, dctx, made', older) /\ older.at = temporary /\ older.do = "struct"
    BY <2>3, <2>4, StructIsItem DEF Whole
  <2> HIDE DEF older, convert
  <2>8. IsSequence(<<older, convert>>) /\ Elements(<<older, convert>>) = {older, convert}
    BY DEF IsSequence, Elements
  <2>9. \A x \in Elements(<<older, convert>>) :
          IsItem(reader, dctx, made', x) /\ x.at[1] \in 0..made'
    BY <2>4, <2>5, <2>6, <2>7, <2>8
  <2>10. agenda' = <<older, convert>> \o Tail(agenda) /\ UNCHANGED <<phase, status>>
    BY <1>4 DEF Continue
  <2>11. Temporaries' \subseteq Temporaries \cup {made + 1}
    <3> DEFINE added == {y \in Elements(<<older, convert>>) : y.do = "convert"}
    <3>1. added = {convert} /\ convert.temporary[1] = made + 1
      BY <2>4, <2>6, <2>7, <2>8
    <3>2. Temporaries' \subseteq Temporaries \cup {x.temporary[1] : x \in added}
      BY <1>1, <2>8, <2>10, TemporariesAfter
    <3> HIDE DEF added
    <3> QED  BY <3>1, <3>2
  <2>12. \A value : Stays(value) => Stays(value)'
    BY <1>2, <1>4, <2>5, <2>11, StillStays
  <2>13. ~ElementsNumbered => PointersStay'
    BY <1>1, <2>12 DEF BodyInv, PointersStay
  <2>14. IsMemory'
    BY <1>1, <1>2, <2>5 DEF IsMemory
  <2>15. tell' \in tell..Len(out) /\ DOMAIN objectsMap' \subseteq Len(Header)..Len(out)
    <3>1. tell' = tell /\ objectsMap' = objectsMap
      BY <1>1
    <3>2. tell \in tell..Len(out)
      BY <1>2
    <3> QED  BY <1>2, <3>1, <3>2
  <2>16. "checkRecursivePointers" \notin dctx.flags => objectsMap' = <<>>
    BY <1>1 DEF BodyInv
  <2> HIDE DEF temporary
  <2> QED  BY <1>1, <1>4, <2>5, <2>8, <2>9, <2>10, <2>13, <2>14, <2>15, <2>16, ReaderGoesOn
<1> QED  BY <1>1, <1>3, <1>4

(* deserialize of a member goes on with the struct that it is.             *)
LEMMA DeserializeMemberKeepsBodyInv ==
  ASSUME BodyInv, DeserializeMember
  PROVE  BodyInv'
<1> DEFINE item == Head(agenda)
           sub == SubStruct(reader, item, 1)
<1>1. /\ phase = "read" /\ agenda # <<>> /\ item.do = "member"
      /\ UNCHANGED <<pair, writerVars, readerVars>> /\ Continue(<<sub>>)
  BY DEF DeserializeMember, Doing
<1>2. IsItem(reader, dctx, made, item) /\ item.at[1] \in 0..made
  BY <1>1, ReadersItem
<1>3. IsItem(reader, dctx, made, sub) /\ sub.at[1] \in 0..made /\ sub.do = "struct"
  BY <1>1, <1>2, SubStructIsItem
<1> HIDE DEF sub
<1> QED  BY <1>1, <1>3, AgendaOfOne, ReaderPrepares

(* What tokens hold by their kind                                          *)
LEMMA TokenIs ==
  ASSUME NEW token, IsToken(token)
  PROVE  /\ token[1] = "number" => IsSent(token[2])
         /\ token[1] = "size" => token[2] \in Nat
         /\ token[1] = "flag" => token[2] \in {0, 1}
         /\ token[1] = "bytes" => \A name \in DOMAIN token[2] : IsSent(token[2][name])
BY DEF IsToken

(* The tokens that are read for                                            *)
LEMMA TokensExpected ==
  ASSUME BodyInv, phase = "read", agenda # <<>>, NEW kind, NEW n \in Nat, Expects(kind, n)
  PROVE  /\ tell + n \in tell..Len(out)
         /\ \A j \in 1..n : IsToken(out[tell + j]) /\ out[tell + j][1] = kind
<1>1. tell \in Nat /\ Len(out) \in Nat /\ \A i \in 1..Len(out) : IsToken(out[i])
  BY ReadersItem
<1>2. tell + n <= Len(out) /\ \A j \in 1..n : out[tell + j][1] = kind
  BY DEF Expects
<1>3. \A j \in 1..n : tell + j \in 1..Len(out)
  BY <1>1, <1>2
<1> QED  BY <1>1, <1>2, <1>3

(* What was sent is a number of the writer's program.                      *)
LEMMA SentStays ==
  ASSUME NEW value, IsSent(value)
  PROVE  Stays(value) /\ (value = Null \/ IsPlace(value))
BY DEF IsSent, Stays

(* A step that reads tokens and puts numbers into memory                   *)
LEMMA ReaderTakes ==
  ASSUME BodyInv, phase = "read", agenda # <<>>,
         UNCHANGED <<pair, writerVars, dctx, objectsMap, made, dead>>, Continue(<<>>),
         NEW n \in Nat, Read(n), tell + n \in tell..Len(out),
         \A slot \in DOMAIN memory' :
           /\ IsPlace(slot)
           /\ IsSent(memory'[slot]) \/ (slot \in DOMAIN memory /\ memory'[slot] = memory[slot])
  PROVE  BodyInv'
<1>1. IsMemory /\ DOMAIN objectsMap \subseteq Len(Header)..Len(out)
  BY ReadersItem
<1>2. IsMemory'
  BY <1>1, SentStays DEF IsMemory
<1>3. /\ "checkRecursivePointers" \notin dctx.flags => objectsMap = <<>>
      /\ ~ElementsNumbered => PointersStay
  BY DEF BodyInv
<1>4. ~ElementsNumbered =>
        /\ \A slot \in DOMAIN memory' : Stays(memory'[slot])
        /\ \A offset \in DOMAIN objectsMap' : Stays(objectsMap'[offset])
  BY <1>3, SentStays DEF PointersStay
<1>5. tell' \in tell..Len(out)
  BY DEF Read
<1> QED  BY <1>1, <1>2, <1>3, <1>4, <1>5, AgendaOfOne, ReaderReads

(* deserialize of a number takes it from the message, if one is there.     *)
LEMMA DeserializeNumberKeepsBodyInv ==
  ASSUME BodyInv, DeserializeNumber
  PROVE  BodyInv'
<1> DEFINE item == Head(agenda)
           slot == Part(item.at, item.member.name, 1)
           value == out[tell + 1][2]
<1>1. /\ phase = "read" /\ agenda # <<>> /\ item.do = "number"
      /\ UNCHANGED <<pair, writerVars, dctx, objectsMap, made>>
      /\ \/ /\ Expects("number", 1) /\ memory' = With(memory, slot, value)
            /\ Read(1) /\ Continue(<<>>) /\ UNCHANGED dead
         \/ Abandon("garbled") /\ UNCHANGED <<memory, tell>>
  BY DEF DeserializeNumber, Doing
<1>2. IsItem(reader, dctx, made, item) /\ IsMemory
  BY <1>1, ReadersItem
<1>3. CASE Abandon("garbled") /\ UNCHANGED <<memory, tell>>
  <2>1. "garbled" \in Statuses \ {"none", "ready", "writing", "written", "reading", "received"}
    BY DEF Statuses
  <2> QED  BY <1>1, <1>3, <2>1, ReaderGivesUp
<1>4. CASE /\ Expects("number", 1) /\ memory' = With(memory, slot, value)
           /\ Read(1) /\ Continue(<<>>) /\ UNCHANGED dead
  <2>1. tell + 1 \in tell..Len(out) /\ IsToken(out[tell + 1]) /\ out[tell + 1][1] = "number"
    <3>1. 1 \in Nat /\ 1 \in 1..1
      OBVIOUS
    <3> QED  BY <1>1, <1>4, <3>1, TokensExpected
  <2>2. IsSent(value)
    BY <2>1, TokenIs
  <2>3. IsPlace(slot)
    BY <1>1, <1>2, ItemIsMember, PartIsPlace DEF MemberKinds
  <2> HIDE DEF slot, value
  <2>4. \A x \in DOMAIN memory' :
          /\ IsPlace(x)
          /\ IsSent(memory'[x]) \/ (x \in DOMAIN memory /\ memory'[x] = memory[x])
    BY <1>2, <1>4, <2>2, <2>3 DEF With, IsMemory
  <2> QED  BY <1>1, <1>4, <2>1, <2>4, ReaderTakes
<1> QED  BY <1>1, <1>3, <1>4

(* A place begins with the place it is a part of, and its name is the last *)
(* but one of what it consists of.                                         *)
LEMMA PartStartsWith ==
  ASSUME NEW p, NEW name, IsPlace(p)
  PROVE  /\ StartsWith(Part(p, name, 1), p)
         /\ Part(p, name, 1)[Len(Part(p, name, 1)) - 1] = name
<1> DEFINE q == Part(p, name, 1)
           t == <<name, 1>>
<1>1. IsSequence(t) /\ Len(t) = 2 /\ IsSequence(p) /\ Len(p) \in Nat /\ t[1] = name
  BY DEF IsPlace, IsSequence
<1>2. q = p \o t
  BY DEF Part
<1> HIDE DEF q, t
<1>3. /\ IsSequence(q) /\ Len(q) = Len(p) + 2
      /\ \A i \in 1..Len(q) : q[i] = IF i <= Len(p) THEN p[i] ELSE t[i - Len(p)]
  BY <1>1, <1>2, Concatenated
<1>4. q \in Seq(Elements(q)) /\ p \in Seq(Elements(p))
  BY <1>1, <1>3, SequenceOfElements
<1>5. SubSeq(q, 1, Len(p)) = [i \in 1..Len(p) |-> q[i]]
  BY <1>1, <1>3, <1>4
<1>6. \A i \in 1..Len(p) : q[i] = p[i]
  BY <1>1, <1>3
<1>7. p = [i \in 1..Len(p) |-> p[i]]
  BY <1>1 DEF IsSequence
<1>8. SubSeq(q, 1, Len(p)) = p
  BY <1>5, <1>6, <1>7
<1>9. q[Len(q) - 1] = name
  <2>1. Len(q) - 1 \in 1..Len(q) /\ ~(Len(q) - 1 <= Len(p)) /\ (Len(q) - 1) - Len(p) = 1
    BY <1>1, <1>3
  <2> QED  BY <1>1, <1>3, <2>1
<1> QED  BY <1>1, <1>3, <1>8, <1>9 DEF StartsWith, q

(* The places and the numbers of structs that are copied                   *)
LEMMA CopiedIs ==
  ASSUME BodyInv, phase = "read", agenda # <<>>,
         NEW structs, IsSequence(structs), \A j \in 1..Len(structs) : IsPlace(structs[j].at),
         ExpectsBytes(structs)
  PROVE  \A slot \in DOMAIN Copied(structs) :
           /\ IsPlace(slot)
           /\ \/ IsSent(Copied(structs)[slot])
              \/ slot \in DOMAIN memory /\ Copied(structs)[slot] = memory[slot]
<1> DEFINE n == Len(structs)
           names == Names(reader, structs[1].type, structs[1].version)
           slots == {Part(structs[j].at, name, 1) : j \in 1..n, name \in names}
           number(slot) == CHOOSE j \in 1..n : StartsWith(slot, structs[j].at)
           value(slot) == out[tell + number(slot)][2][slot[Len(slot) - 1]]
<1>1. Copied(structs) = [slot \in DOMAIN memory \cup slots |->
                           IF slot \in slots THEN value(slot) ELSE memory[slot]]
  BY DEF Copied
<1>2. \A j \in 1..n, name \in names : IsSent(out[tell + j][2][name])
  <2>1. n \in Nat
    BY DEF IsSequence
  <2>2. Expects("bytes", n) /\ \A j \in 1..n : DOMAIN out[tell + j][2] = names
    BY DEF ExpectsBytes
  <2>3. \A j \in 1..n : IsToken(out[tell + j]) /\ out[tell + j][1] = "bytes"
    BY <2>1, <2>2, TokensExpected
  <2> QED  BY <2>2, <2>3, TokenIs
<1>3. ASSUME NEW slot \in slots
      PROVE  IsPlace(slot) /\ IsSent(value(slot))
  <2>1. PICK j \in 1..n, name \in names : slot = Part(structs[j].at, name, 1)
    OBVIOUS
  <2>2. IsPlace(slot) /\ StartsWith(slot, structs[j].at) /\ slot[Len(slot) - 1] = name
    BY <2>1, PartIsPlace, PartStartsWith
  <2>3. number(slot) \in 1..n
    BY <2>2
  <2> HIDE DEF number
  <2> QED  BY <1>2, <2>2, <2>3
<1>4. IsMemory
  BY ReadersItem
<1> HIDE DEF value, slots
<1> QED  BY <1>1, <1>3, <1>4 DEF IsMemory

(* The copy of structs puts numbers into memory, or the message is given up. *)
LEMMA TakeBytesKeepsBodyInv ==
  ASSUME BodyInv, phase = "read", agenda # <<>>,
         UNCHANGED <<pair, writerVars, dctx, objectsMap, made>>,
         NEW structs, IsSequence(structs), \A j \in 1..Len(structs) : IsPlace(structs[j].at),
         TakeBytes(structs)
  PROVE  BodyInv'
<1>1. CASE ExpectsBytes(structs)
  <2>1. /\ memory' = Copied(structs) /\ Read(Len(structs)) /\ Continue(<<>>)
        /\ UNCHANGED <<pair, writerVars, dctx, objectsMap, made, dead>>
    BY <1>1 DEF TakeBytes
  <2>2. Len(structs) \in Nat /\ tell + Len(structs) \in tell..Len(out)
    BY <1>1, TokensExpected DEF ExpectsBytes, IsSequence
  <2> QED  BY <1>1, <2>1, <2>2, CopiedIs, ReaderTakes
<1>2. CASE ~ExpectsBytes(structs)
  <2>1. "garbled" \in Statuses \ {"none", "ready", "writing", "written", "reading", "received"}
    BY DEF Statuses
  <2> QED  BY <1>2, <2>1, ReaderGivesUp DEF TakeBytes
<1> QED  BY <1>1, <1>2

(* deserialize of a struct copies it, goes on with its members, or refuses its flags. *)
LEMMA DeserializeStructKeepsBodyInv ==
  ASSUME BodyInv, DeserializeStruct
  PROVE  BodyInv'
<1> DEFINE item == Head(agenda)
<1>1. /\ phase = "read" /\ agenda # <<>> /\ item.do = "struct"
      /\ VersionInMessage(reader, item, dctx) = item.version
      /\ UNCHANGED <<pair, writerVars, dctx, objectsMap, made>>
      /\ \/ Abandon("flags") /\ UNCHANGED <<memory, tell>>
         \/ TakeBytes(<<item>>)
         \/ Continue(MembersOf(reader, item)) /\ UNCHANGED <<memory, tell, dead>>
  BY DEF DeserializeStruct, Doing
<1>2. IsItem(reader, dctx, made, item) /\ item.at[1] \in 0..made /\ dctx \in Contexts
      /\ IsBuild(reader)
  BY <1>1, ReadersItem
<1>3. CASE Abandon("flags") /\ UNCHANGED <<memory, tell>>
  <2>1. "flags" \in Statuses \ {"none", "ready", "writing", "written", "reading", "received"}
    BY DEF Statuses
  <2> QED  BY <1>1, <1>3, <2>1, ReaderGivesUp
<1>4. CASE TakeBytes(<<item>>)
  <2>1. IsPlace(item.at)
    BY <1>1, <1>2, ItemIsStruct
  <2>2. IsSequence(<<item>>) /\ \A j \in 1..Len(<<item>>) : <<item>>[j] = item
    BY AgendaOfOne
  <2> QED  BY <1>1, <1>4, <2>1, <2>2, TakeBytesKeepsBodyInv
<1>5. CASE Continue(MembersOf(reader, item)) /\ UNCHANGED <<memory, tell, dead>>
  <2>1. /\ IsSequence(MembersOf(reader, item))
        /\ \A x \in Elements(MembersOf(reader, item)) :
             IsItem(reader, dctx, made, x) /\ x.at[1] \in 0..made /\ x.do # "convert"
    BY <1>1, <1>2, MembersAreItems DEF MemberKinds
  <2>2. UNCHANGED <<pair, writerVars, readerVars>>
    BY <1>1, <1>5 DEF readerVars
  <2> QED  BY <1>1, <1>5, <2>1, <2>2, ReaderPrepares
<1> QED  BY <1>1, <1>3, <1>4, <1>5

(* deserialize of an array copies its elements or goes on with them.       *)
LEMMA DeserializeArrayKeepsBodyInv ==
  ASSUME BodyInv, DeserializeArray
  PROVE  BodyInv'
<1> DEFINE item == Head(agenda)
           m == item.member
           elements == [j \in 1..m.n |-> SubStruct(reader, item, j)]
<1>1. /\ phase = "read" /\ agenda # <<>> /\ item.do = "array"
      /\ UNCHANGED <<pair, writerVars, dctx, objectsMap, made>>
      /\ \/ TakeBytes(elements)
         \/ Continue(FlattenSeq([j \in 1..m.n |->
                       <<[do |-> "element", at |-> elements[j].at], elements[j]>>]))
            /\ UNCHANGED <<memory, tell, dead>>
  BY DEF DeserializeArray, Doing
<1>2. IsItem(reader, dctx, made, item) /\ item.at[1] \in 0..made /\ IsBuild(reader)
  BY <1>1, ReadersItem
<1>3. m.n \in Nat
  BY <1>1, <1>2, ArrayIs
<1>4. CASE TakeBytes(elements)
  <2>1. IsSequence(elements) /\ Len(elements) = m.n
    BY <1>3 DEF IsSequence
  <2>2. \A j \in 1..m.n : IsPlace(elements[j].at)
    BY <1>1, <1>2, SubStructIsItem
  <2> HIDE DEF elements
  <2> QED  BY <1>1, <1>4, <2>1, <2>2, TakeBytesKeepsBodyInv
<1>5. CASE /\ Continue(FlattenSeq([j \in 1..m.n |->
                       <<[do |-> "element", at |-> elements[j].at], elements[j]>>]))
           /\ UNCHANGED <<memory, tell, dead>>
  <2> DEFINE items == FlattenSeq(OneByOne(reader, item))
  <2>1. [j \in 1..m.n |-> <<[do |-> "element", at |-> elements[j].at], elements[j]>>]
        = OneByOne(reader, item)
    BY DEF OneByOne
  <2>2. Continue(items)
    BY <1>5, <2>1
  <2>3. /\ IsSequence(items)
        /\ \A x \in Elements(items) :
             IsItem(reader, dctx, made, x) /\ x.at[1] = item.at[1] /\ x.do # "convert"
    BY <1>1, <1>2, ElementsAreItems
  <2> HIDE DEF items
  <2>4. \A x \in Elements(items) :
          IsItem(reader, dctx, made, x) /\ x.at[1] \in 0..made /\ x.do # "convert"
    BY <1>2, <2>3
  <2>5. UNCHANGED <<pair, writerVars, readerVars>>
    BY <1>1, <1>5 DEF readerVars
  <2> QED  BY <1>1, <2>2, <2>3, <2>4, <2>5, ReaderPrepares
<1> QED  BY <1>1, <1>4, <1>5

(* An element of an array is numbered: where structs are converted, it may *)
(* stand in one that will be gone.                                         *)
LEMMA DeserializeElementKeepsBodyInv ==
  ASSUME BodyInv, DeserializeElement
  PROVE  BodyInv'
<1> DEFINE at == Head(agenda).at
           recursive == "checkRecursivePointers" \in dctx.flags
<1>1. /\ phase = "read" /\ agenda # <<>> /\ Head(agenda).do = "element" /\ Continue(<<>>)
      /\ UNCHANGED <<pair, writerVars, dctx, tell, memory, made, dead>>
      /\ objectsMap' = IF recursive THEN With(objectsMap, tell, at) ELSE objectsMap
  BY DEF DeserializeElement, Doing
<1>2. /\ IsItem(reader, dctx, made, Head(agenda)) /\ at[1] \in 0..made /\ IsMemory
      /\ Len(out) \in Nat /\ tell \in Nat /\ tell >= Len(Header) /\ tell <= Len(out)
      /\ DOMAIN objectsMap \subseteq Len(Header)..Len(out)
  BY <1>1, ReadersItem
<1>3. IsPlace(at) /\ \E m \in MembersIn(reader) : m.kind = "array"
  BY <1>1, <1>2, ItemIsElement
<1>4. /\ ~dctx.notMatch => dead = {}
      /\ ~recursive => objectsMap = <<>>
      /\ ~ElementsNumbered => PointersStay
  BY DEF BodyInv
<1>5. ~ElementsNumbered /\ recursive => Stays(at)
  <2>1. ASSUME ~ElementsNumbered, recursive
        PROVE  Stays(at)
    <3>1. ~dctx.notMatch
      BY <1>3, <2>1 DEF ElementsNumbered
    <3>2. Temporaries = {} /\ dead = {}
      BY <1>1, <1>4, <3>1, TemporariesAre
    <3> QED  BY <1>2, <3>2 DEF Stays
  <2> QED  BY <2>1
<1> HIDE DEF at
<1>6. IsMemory'
  BY <1>1, <1>2, <1>3 DEF IsMemory, With
<1>7. tell \in Len(Header)..Len(out) /\ tell' \in tell..Len(out)
  <2>1. Len(Header) = 2
    BY DEF Header
  <2> QED  BY <1>1, <1>2, <2>1
<1>8. DOMAIN objectsMap' \subseteq Len(Header)..Len(out)
  BY <1>1, <1>2, <1>7 DEF With
<1>9. ~ElementsNumbered =>
        /\ \A slot \in DOMAIN memory' : Stays(memory'[slot])
        /\ \A offset \in DOMAIN objectsMap' : Stays(objectsMap'[offset])
  BY <1>1, <1>4, <1>5 DEF PointersStay, With
<1> QED  BY <1>1, <1>4, <1>6, <1>7, <1>8, <1>9, AgendaOfOne, ReaderReads

(* An object that is made for a pointer                                    *)
LEMMA NewObjectKeepsBodyInv ==
  ASSUME BodyInv, phase = "read", agenda # <<>>, UNCHANGED <<pair, writerVars, dctx>>,
         NEW slot, IsPlace(slot), NEW T, InMessage(reader, dctx, T),
         tell' = tell + 1, tell + 1 <= Len(out), NewObject(slot, T)
  PROVE  BodyInv'
<1>1. PICK new : new = <<made + 1>>
  OBVIOUS
<1> DEFINE item == Latest(reader, T, new)
           recursive == "checkRecursivePointers" \in dctx.flags
<1>2. /\ IsBuild(reader) /\ IsMemory /\ made \in Nat /\ dead \subseteq 1..made
      /\ Len(out) \in Nat /\ tell \in Nat /\ tell >= Len(Header)
      /\ DOMAIN objectsMap \subseteq Len(Header)..Len(out)
  BY ReadersItem
<1>3. /\ tell' \in tell..Len(out) /\ tell' \in Len(Header)..Len(out)
  <2>1. Len(Header) = 2
    BY DEF Header
  <2> QED  BY <1>2, <2>1
<1>4. /\ ~recursive => objectsMap = <<>>
      /\ ~ElementsNumbered => PointersStay
  BY DEF BodyInv
<1>5. CASE /\ made' = made + 1 /\ memory' = With(memory, slot, new)
           /\ objectsMap' = IF recursive THEN With(objectsMap, tell', new) ELSE objectsMap
           /\ Continue(<<item>>) /\ UNCHANGED dead
  <2>1. IsPlace(new) /\ new[1] = made + 1
    BY <1>1, ObjectIsPlace
  <2>2. made' \in Nat /\ made <= made' /\ made + 1 \in 0..made' /\ dead' \subseteq 1..made'
        /\ made + 1 \notin dead
    BY <1>2, <1>5
  <2>3. IsItem(reader, dctx, made', item) /\ item.at[1] \in 0..made' /\ item.do = "struct"
    BY <1>2, <2>1, <2>2, LatestIsItem
  <2>4. agenda' = <<item>> \o Tail(agenda) /\ UNCHANGED <<phase, status>>
    BY <1>5 DEF Continue
  <2> HIDE DEF item
  <2>5. IsSequence(<<item>>) /\ Elements(<<item>>) = {item}
    BY AgendaOfOne
  <2>6. Temporaries' \subseteq Temporaries
    <3>1. Temporaries' \subseteq
            Temporaries \cup {x.temporary[1] : x \in {y \in {item} : y.do = "convert"}}
      BY <2>4, <2>5, TemporariesAfter
    <3> QED  BY <2>3, <3>1
  <2>7. \A value : Stays(value) => Stays(value)'
    BY <1>2, <1>5, <2>2, <2>6, StillStays
  <2>8. Stays(new)'
    <3>1. made + 1 \notin Temporaries'
      BY <1>2, <2>6, TemporariesAre
    <3>2. made + 1 \notin dead'
      BY <1>5, <2>2
    <3> QED  BY <2>1, <2>2, <3>1, <3>2 DEF Stays
  <2>9. ~ElementsNumbered => PointersStay'
    BY <1>4, <1>5, <2>7, <2>8 DEF PointersStay, With
  <2>10. IsMemory'
    BY <1>2, <1>5, <2>1, <2>2 DEF IsMemory, With
  <2>11. DOMAIN objectsMap' \subseteq Len(Header)..Len(out)
    BY <1>2, <1>3, <1>5 DEF With
  <2>12. ~recursive => objectsMap' = <<>>
    BY <1>4, <1>5
  <2>13. \A x \in Elements(<<item>>) : IsItem(reader, dctx, made', x) /\ x.at[1] \in 0..made'
    BY <2>3, <2>5
  <2> QED  BY <1>3, <1>5, <2>2, <2>4, <2>5, <2>9, <2>10, <2>11, <2>12, <2>13, ReaderGoesOn
<1>6. CASE /\ memory' = With(memory, slot, Null) /\ Abandon("no memory")
           /\ UNCHANGED <<made, objectsMap>>
  <2>1. "no memory" \in Statuses \ {"none", "ready", "writing", "written", "reading", "received"}
    BY DEF Statuses
  <2>2. IsMemory'
    BY <1>2, <1>6 DEF IsMemory, With
  <2>3. ~ElementsNumbered =>
          /\ \A x \in DOMAIN memory' : Stays(memory'[x])
          /\ \A offset \in DOMAIN objectsMap' : Stays(objectsMap'[offset])
    BY <1>4, <1>6 DEF PointersStay, With, Stays
  <2> QED  BY <1>2, <1>3, <1>4, <1>6, <2>1, <2>2, <2>3, ReaderStops
<1> QED  BY <1>1, <1>5, <1>6 DEF NewObject

(* An object that was met before                                           *)
LEMMA KnownObjectKeepsBodyInv ==
  ASSUME BodyInv, phase = "read", agenda # <<>>, UNCHANGED <<pair, writerVars, dctx>>,
         NEW slot, IsPlace(slot), NEW offset \in Nat, offset > 1,
         "checkRecursivePointers" \in dctx.flags,
         tell' = tell + 1, tell + 1 <= Len(out), KnownObject(slot, offset)
  PROVE  BodyInv'
<1> DEFINE value == At(objectsMap, offset)
<1>1. /\ IsMemory /\ Len(out) \in Nat /\ tell \in Nat /\ tell >= Len(Header)
      /\ DOMAIN objectsMap \subseteq Len(Header)..Len(out)
  BY ReadersItem
<1>2. tell' \in tell..Len(out)
  BY <1>1
<1>3. ~ElementsNumbered => PointersStay
  BY DEF BodyInv
<1>4. CASE /\ Abandon("internal") /\ UNCHANGED <<memory, objectsMap>> /\ UNCHANGED made
  <2>1. "internal" \in Statuses \ {"none", "ready", "writing", "written", "reading", "received"}
    BY DEF Statuses
  <2>2. IsMemory'
    BY <1>1, <1>4 DEF IsMemory
  <2> QED  BY <1>1, <1>2, <1>3, <1>4, <2>1, <2>2, ReaderStops DEF PointersStay
<1>5. CASE /\ offset < tell' /\ memory' = With(memory, slot, value)
           /\ objectsMap' = With(objectsMap, offset, value)
           /\ Continue(<<>>) /\ UNCHANGED dead /\ UNCHANGED made
  <2>1. (value = Null \/ IsPlace(value)) /\ (~ElementsNumbered => Stays(value))
    BY <1>1, <1>3 DEF At, IsMemory, PointersStay, Stays
  <2>2. offset \in Len(Header)..Len(out)
    <3>1. Len(Header) = 2
      BY DEF Header
    <3> QED  BY <1>1, <1>2, <1>5, <3>1
  <2> HIDE DEF value
  <2>3. IsMemory'
    BY <1>1, <1>5, <2>1 DEF IsMemory, With
  <2>4. DOMAIN objectsMap' \subseteq Len(Header)..Len(out)
    BY <1>1, <1>5, <2>2 DEF With
  <2>5. ~ElementsNumbered =>
          /\ \A x \in DOMAIN memory' : Stays(memory'[x])
          /\ \A x \in DOMAIN objectsMap' : Stays(objectsMap'[x])
    BY <1>3, <1>5, <2>1 DEF PointersStay, With
  <2> QED  BY <1>2, <1>5, <2>3, <2>4, <2>5, AgendaOfOne, ReaderReads
<1>6. ~(offset >= tell') => offset < tell'
  BY <1>1, <1>2
<1> QED  BY <1>4, <1>5, <1>6 DEF KnownObject

(* deserialize of a pointer makes an object or looks up one that was met before. *)
LEMMA DeserializePointerKeepsBodyInv ==
  ASSUME BodyInv, DeserializePointer
  PROVE  BodyInv'
<1> DEFINE item == Head(agenda)
           slot == Part(item.at, item.member.name, 1)
           recursive == "checkRecursivePointers" \in dctx.flags
           kind == IF recursive THEN "size" ELSE "flag"
           prefix == out[tell + 1][2]
<1>1. /\ phase = "read" /\ agenda # <<>> /\ item.do = "pointer"
      /\ UNCHANGED <<pair, writerVars, dctx>>
      /\ \/ /\ Expects(kind, 1) /\ Read(1)
            /\ \/ /\ memory' = With(memory, slot, Null) /\ Continue(<<>>)
                  /\ UNCHANGED <<objectsMap, made, dead>>
               \/ NewObject(slot, item.member.type)
               \/ prefix > 1 /\ KnownObject(slot, prefix)
         \/ /\ \E s \in {"not supported", "garbled"} : Abandon(s)
            /\ UNCHANGED <<objectsMap, tell, memory, made>>
  BY DEF DeserializePointer, Doing
<1>2. /\ IsItem(reader, dctx, made, item) /\ IsMemory
      /\ DOMAIN objectsMap \subseteq Len(Header)..Len(out)
      /\ tell \in Nat /\ Len(out) \in Nat
  BY <1>1, ReadersItem
<1>3. InMessage(reader, dctx, item.member.type) /\ IsPlace(slot)
  BY <1>1, <1>2, ItemIsMember, PartIsPlace DEF MemberKinds, MemberInMessage
<1>4. CASE /\ \E s \in {"not supported", "garbled"} : Abandon(s)
           /\ UNCHANGED <<objectsMap, tell, memory, made>>
  <2>1. PICK s \in {"not supported", "garbled"} : Abandon(s)
    BY <1>4
  <2>2. s \in Statuses \ {"none", "ready", "writing", "written", "reading", "received"}
    BY DEF Statuses
  <2> QED  BY <1>1, <1>4, <2>1, <2>2, ReaderGivesUp
<1>5. ASSUME Expects(kind, 1), Read(1)
      PROVE  /\ tell + 1 \in tell..Len(out) /\ tell' = tell + 1 /\ tell + 1 <= Len(out)
             /\ recursive => prefix \in Nat
             /\ ~recursive => prefix \in {0, 1}
  <2>1. tell + 1 \in tell..Len(out) /\ IsToken(out[tell + 1]) /\ out[tell + 1][1] = kind
    <3>1. 1 \in Nat /\ 1 \in 1..1
      OBVIOUS
    <3> HIDE DEF kind
    <3> QED  BY <1>1, <1>5, <3>1, TokensExpected
  <2> QED  BY <1>2, <1>5, <2>1, TokenIs DEF Read
<1>6. CASE /\ Expects(kind, 1) /\ Read(1) /\ memory' = With(memory, slot, Null) /\ Continue(<<>>)
           /\ UNCHANGED <<objectsMap, made, dead>>
  <2>1. IsSent(Null)
    BY DEF IsSent
  <2> HIDE DEF slot
  <2>2. \A x \in DOMAIN memory' :
          /\ IsPlace(x)
          /\ IsSent(memory'[x]) \/ (x \in DOMAIN memory /\ memory'[x] = memory[x])
    BY <1>2, <1>3, <1>6, <2>1 DEF With, IsMemory
  <2> QED  BY <1>1, <1>5, <1>6, <2>2, ReaderTakes
<1>7. CASE Expects(kind, 1) /\ Read(1) /\ NewObject(slot, item.member.type)
  BY <1>1, <1>3, <1>5, <1>7, NewObjectKeepsBodyInv
<1>8. CASE Expects(kind, 1) /\ Read(1) /\ prefix > 1 /\ KnownObject(slot, prefix)
  <2>1. recursive /\ prefix \in Nat
    BY <1>5, <1>8
  <2> HIDE DEF prefix, slot
  <2> QED  BY <1>1, <1>3, <1>5, <1>8, <2>1, KnownObjectKeepsBodyInv
<1> QED  BY <1>1, <1>4, <1>6, <1>7, <1>8

(* A part of a sequence, element by element                                *)
LEMMA SubSequence ==
  ASSUME NEW s, IsSequence(s), NEW m \in Nat, m >= 1, m <= Len(s) + 1
  PROVE  /\ IsSequence(SubSeq(s, m, Len(s)))
         /\ Len(SubSeq(s, m, Len(s))) = Len(s) - m + 1
         /\ \A i \in 1..(Len(s) - m + 1) : SubSeq(s, m, Len(s))[i] = s[m + i - 1]
<1>1. s \in Seq(Elements(s)) /\ Len(s) \in Nat
  BY SequenceOfElements DEF IsSequence
<1> DEFINE t == SubSeq(s, m, Len(s))
<1>2. t \in Seq(Elements(s)) /\ Len(t) = Len(s) - m + 1
      /\ \A i \in 1..(Len(s) - m + 1) : t[i] = s[m + i - 1]
  BY <1>1
<1>3. IsSequence(t)
  BY <1>2, SequenceIs
<1> QED  BY <1>2, <1>3

(* A place s in the temporary t and the place q in the object that becomes *)
(* of it, and the way back                                                 *)
IsCarried(s, t, at, q, back) ==
  /\ q = at \o SubSeq(s, 2, Len(s))
  /\ back = t \o SubSeq(q, Len(at) + 1, Len(q))

(* The inits of a chain lead back to where the value was read.             *)
LEMMA Carried ==
  ASSUME NEW s, NEW k, NEW t, t = <<k>>, NEW at, NEW q, NEW r, IsPlace(s), StartsWith(s, t),
         IsPlace(at), IsCarried(s, t, at, q, r)
  PROVE  IsPlace(q) /\ r = s
<1>1. PICK u : u = SubSeq(s, 2, Len(s))
  OBVIOUS
<1>2. /\ IsSequence(s) /\ Len(s) \in Nat /\ s # <<>> /\ Len(s) > 1
      /\ IsSequence(at) /\ Len(at) \in Nat /\ at # <<>> /\ SubSeq(s, 1, 1) = <<k>>
  BY DEF IsPlace, IsSequence, StartsWith
<1>3. s[1] = k
  <2>1. s \in Seq(Elements(s))
    BY <1>2, SequenceOfElements
  <2>2. SubSeq(s, 1, 1)[1] = s[1]
    BY <1>2, <2>1
  <2>3. <<k>>[1] = k
    OBVIOUS
  <2> QED  BY <1>2, <2>2, <2>3
<1>4. IsSequence(u) /\ Len(u) = Len(s) - 1 /\ \A i \in 1..(Len(s) - 1) : u[i] = s[i + 1]
  <2>1. IsSequence(SubSeq(s, 2, Len(s))) /\ Len(SubSeq(s, 2, Len(s))) = Len(s) - 2 + 1
        /\ \A i \in 1..(Len(s) - 2 + 1) : SubSeq(s, 2, Len(s))[i] = s[2 + i - 1]
    BY <1>2, SubSequence
  <2>2. Len(s) - 2 + 1 = Len(s) - 1 /\ \A i \in 1..(Len(s) - 1) : 2 + i - 1 = i + 1
    BY <1>2
  <2> QED  BY <1>1, <2>1, <2>2
<1>5. q = at \o u
  BY <1>1 DEF IsCarried
<1>6. /\ IsSequence(q) /\ Len(q) = Len(at) + Len(u)
      /\ \A i \in 1..Len(q) : q[i] = IF i <= Len(at) THEN at[i] ELSE u[i - Len(at)]
  BY <1>2, <1>4, <1>5, Concatenated
<1>7. PICK m : m = Len(at) + 1
  OBVIOUS
<1> DEFINE w == SubSeq(q, m, Len(q))
<1>8. IsSequence(w) /\ Len(w) = Len(u) /\ \A i \in 1..Len(u) : w[i] = u[i]
  <2>1. m \in Nat /\ m >= 1 /\ m <= Len(q) + 1 /\ Len(q) - m + 1 = Len(u) /\ Len(u) \in Nat
    BY <1>2, <1>4, <1>6, <1>7
  <2>2. IsSequence(w) /\ Len(w) = Len(q) - m + 1
        /\ \A i \in 1..(Len(q) - m + 1) : w[i] = q[m + i - 1]
    BY <1>6, <2>1, SubSequence
  <2> HIDE DEF w
  <2>3. ASSUME NEW i \in 1..Len(u)
        PROVE  w[i] = u[i]
    <3>1. /\ m + i - 1 = Len(at) + i /\ Len(at) + i \in 1..Len(q)
          /\ ~(Len(at) + i <= Len(at)) /\ (Len(at) + i) - Len(at) = i
      BY <1>2, <1>6, <1>7, <2>1
    <3>2. w[i] = q[Len(at) + i]
      BY <2>1, <2>2, <3>1
    <3> QED  BY <1>6, <3>1, <3>2
  <2> QED  BY <2>1, <2>2, <2>3
<1> HIDE DEF w
<1>9. IsSequence(<<k>>) /\ Len(<<k>>) = 1 /\ <<k>>[1] = k
  BY AgendaOfOne
<1>10. r = <<k>> \o w
  BY <1>7 DEF IsCarried, w
<1>11. /\ IsSequence(r) /\ Len(r) = Len(s)
      /\ \A i \in 1..Len(s) : r[i] = IF i <= 1 THEN <<k>>[i] ELSE w[i - 1]
  <2>1. /\ IsSequence(r) /\ Len(r) = 1 + Len(w)
        /\ \A i \in 1..Len(r) : r[i] = IF i <= 1 THEN <<k>>[i] ELSE w[i - 1]
    BY <1>8, <1>9, <1>10, Concatenated
  <2> QED  BY <1>2, <1>4, <1>8, <2>1
<1>12. ASSUME NEW i \in 1..Len(s)
      PROVE  r[i] = s[i]
  <2>1. CASE i = 1
    BY <1>3, <1>9, <1>11, <2>1
  <2>2. CASE i # 1
    <3>1. ~(i <= 1) /\ i - 1 \in 1..(Len(s) - 1) /\ (i - 1) + 1 = i
      BY <1>2, <2>2
    <3> QED  BY <1>4, <1>8, <1>11, <3>1
  <2> QED  BY <2>1, <2>2
<1>13. r = s
  <2>1. r = [i \in 1..Len(s) |-> r[i]] /\ s = [i \in 1..Len(s) |-> s[i]]
    BY <1>2, <1>11 DEF IsSequence
  <2> QED  BY <1>12, <2>1
<1>14. q # <<>>
  <2>1. Len(q) # 0
    BY <1>2, <1>4, <1>6
  <2> QED  BY <2>1
<1> QED  BY <1>6, <1>13, <1>14 DEF IsPlace

(* What is left in memory is what was there.                               *)
LEMMA ConvertedIs ==
  ASSUME IsMemory, NEW item, IsPlace(item.at), NEW k, item.temporary = <<k>>
  PROVE  \A slot \in DOMAIN Converted(item) :
           IsPlace(slot) /\ \E s \in DOMAIN memory : Converted(item)[slot] = memory[s]
<1> DEFINE names == Handed(reader, item.type, Append(item.chain, item.version))
           read == {slot \in DOMAIN memory : StartsWith(slot, item.temporary)}
           carried == {slot \in read : slot[Len(item.temporary) + 1] \in names}
           source(slot) == item.temporary \o SubSeq(slot, Len(item.at) + 1, Len(slot))
           new == {item.at \o SubSeq(slot, Len(item.temporary) + 1, Len(slot)) : slot \in carried}
<1>1. Converted(item) = [slot \in (DOMAIN memory \ read) \cup new |->
                           IF slot \in new THEN memory[source(slot)] ELSE memory[slot]]
  BY DEF Converted
<1>2. ASSUME NEW slot \in new
      PROVE  IsPlace(slot) /\ source(slot) \in DOMAIN memory
  <2>1. PICK s \in carried : slot = item.at \o SubSeq(s, Len(item.temporary) + 1, Len(s))
    OBVIOUS
  <2>2. s \in DOMAIN memory /\ StartsWith(s, <<k>>) /\ IsPlace(s)
    BY DEF IsMemory
  <2>3. Len(item.temporary) + 1 = 2
    BY AgendaOfOne
  <2>4. IsCarried(s, item.temporary, item.at, slot, source(slot))
    BY <2>1, <2>3 DEF IsCarried
  <2> HIDE DEF carried, new, read, names, source
  <2> QED  BY <2>2, <2>4, Carried
<1> HIDE DEF new, source, read
<1>3. ASSUME NEW slot \in DOMAIN Converted(item)
      PROVE  IsPlace(slot) /\ \E s \in DOMAIN memory : Converted(item)[slot] = memory[s]
  <2>1. CASE slot \in new
    BY <1>1, <1>2, <2>1
  <2>2. CASE slot \notin new
    BY <1>1, <2>2 DEF IsMemory
  <2> QED  BY <2>1, <2>2
<1> QED  BY <1>3

(* The temporary is gone, and no pointer leads to it.                      *)
LEMMA ConvertToUpperVersionKeepsBodyInv ==
  ASSUME BodyInv, ConvertToUpperVersion
  PROVE  BodyInv'
<1> DEFINE item == Head(agenda)
<1>1. /\ phase = "read" /\ agenda # <<>> /\ item.do = "convert"
      /\ UNCHANGED <<pair, writerVars, dctx, objectsMap, tell, made>>
      /\ \/ /\ memory' = Converted(item) /\ dead' = dead \cup {item.temporary[1]}
            /\ Continue(<<>>)
         \/ \E s \in {"no such handler", "no memory"} : Abandon(s) /\ UNCHANGED memory
  BY DEF ConvertToUpperVersion, Doing
<1>2. /\ IsItem(reader, dctx, made, item) /\ IsMemory /\ made \in Nat /\ dead \subseteq 1..made
      /\ tell \in Nat /\ Len(out) \in Nat /\ tell <= Len(out)
      /\ DOMAIN objectsMap \subseteq Len(Header)..Len(out)
  BY <1>1, ReadersItem
<1>3. ASSUME NEW s \in {"no such handler", "no memory"}, Abandon(s), UNCHANGED memory
      PROVE  BodyInv'
  <2>1. s \in Statuses \ {"none", "ready", "writing", "written", "reading", "received"}
    BY DEF Statuses
  <2> QED  BY <1>1, <1>3, <2>1, ReaderGivesUp
<1>4. CASE /\ memory' = Converted(item) /\ dead' = dead \cup {item.temporary[1]}
           /\ Continue(<<>>)
  <2>1. dctx.notMatch /\ IsPlace(item.at) /\ \E k \in 1..made : item.temporary = <<k>>
    BY <1>1, <1>2, ItemIsConvert
  <2>2. PICK k \in 1..made : item.temporary = <<k>>
    BY <2>1
  <2>3. dead' = dead \cup {k} /\ dead' \subseteq 1..made
    <3>1. item.temporary[1] = k
      BY <2>2
    <3> QED  BY <1>2, <1>4, <3>1
  <2>4. \A slot \in DOMAIN memory' :
          IsPlace(slot) /\ \E s \in DOMAIN memory : memory'[slot] = memory[s]
    BY <1>2, <1>4, <2>1, <2>2, ConvertedIs
  <2>5. IsMemory'
    BY <1>1, <1>2, <2>4 DEF IsMemory
  <2>6. agenda' = <<>> \o Tail(agenda) /\ UNCHANGED <<phase, status>>
    BY <1>4 DEF Continue
  <2>7. k \in Temporaries
    <3>1. item \in Elements(agenda)
      BY <1>1, TailElements DEF BodyInv, Typed, IsAgenda
    <3>2. Temporaries = {x.temporary[1] : x \in {y \in Elements(agenda) : y.do = "convert"}}
      BY <1>1, TemporariesAre
    <3>3. item.temporary[1] \in Temporaries
      BY <1>1, <3>1, <3>2
    <3> QED  BY <2>2, <3>3
  <2>8. Temporaries' \subseteq Temporaries
    <3>1. IsSequence(<<>>) /\ Elements(<<>>) = {}
      BY AgendaOfOne
    <3>2. Temporaries' \subseteq
            Temporaries \cup {x.temporary[1] : x \in {y \in Elements(<<>>) : y.do = "convert"}}
      BY <1>1, <2>6, <3>1, TemporariesAfter
    <3> QED  BY <3>1, <3>2
  <2>9. \A value : Stays(value) => Stays(value)'
    <3> HIDE DEF item
    <3>1. made' = made
      BY <1>1
    <3>2. made' \in Nat /\ made <= made'
      BY <1>2, <3>1
    <3> QED  BY <1>2, <2>3, <2>7, <2>8, <3>2, StillStays
  <2>10. ~ElementsNumbered => PointersStay'
    BY <1>1, <2>4, <2>9 DEF BodyInv, PointersStay
  <2>11. /\ tell' \in tell..Len(out) /\ DOMAIN objectsMap' \subseteq Len(Header)..Len(out)
         /\ made' \in Nat /\ made <= made' /\ dead' \subseteq 1..made'
    <3>1. tell' = tell /\ objectsMap' = objectsMap /\ made' = made
      BY <1>1
    <3> HIDE DEF item
    <3> QED  BY <1>2, <2>3, <3>1
  <2>12. "checkRecursivePointers" \notin dctx.flags => objectsMap' = <<>>
    BY <1>1 DEF BodyInv
  <2> QED  BY <1>1, <2>1, <2>5, <2>6, <2>10, <2>11, <2>12, AgendaOfOne, ReaderGoesOn
<1> QED  BY <1>1, <1>3, <1>4

-----------------------------------------------------------------------------
(* The invariant and what follows from it.                                 *)

(* The contexts are new and nothing is read.                               *)
LEMMA InitIsBodyInv ==
  ASSUME Init
  PROVE  BodyInv
<1>1. IsAgenda /\ WrittenFrom /\ ReadInto /\ IsMessage /\ IsMemory /\ Unread
  BY DEF Init, IsAgenda, WrittenFrom, ReadInto, IsMessage, IsMemory, Unread, IsSequence,
     Elements
<1>2. TypeOK
  <2>1. tell \in 0..Len(out) /\ DOMAIN pointersMap = {} /\ DOMAIN objectsMap = {} /\ dead = {}
    BY DEF Init
  <2> QED  BY <2>1, ContextsAre DEF Init, TypeOK, Statuses
<1>3. InOrder
  BY <1>1, ContextsAre DEF Init, InOrder
<1> QED  BY <1>1, <1>2, <1>3 DEF Init, BodyInv, Typed, PointersStay

(* No step of either side breaks the invariant.                            *)
LEMMA NextKeepsBodyInv ==
  ASSUME BodyInv, [Next]_vars
  PROVE  BodyInv'
<1>1. CASE UNCHANGED vars
  <2>1. /\ UNCHANGED <<pair, graph, sctx, dctx, phase, agenda, out, pointersMap, objectsMap>>
        /\ UNCHANGED <<tell, memory, made, dead, status>>
    BY <1>1 DEF vars, writerVars, readerVars
  <2> QED  BY <2>1
           DEF BodyInv, Typed, TypeOK, IsAgenda, WrittenFrom, ReadInto, IsMessage, IsMemory,
               InOrder, Unread, PointersStay, Stays, Temporaries, ElementsNumbered, Worker,
               WorkerContext, writer, reader
<1>2. ASSUME NEW newWriter \in BOOLEAN, NEW clearReader \in BOOLEAN,
             NextMessage(newWriter, clearReader)
      PROVE  BodyInv'
  BY <1>2, NextMessageKeepsBodyInv
<1>3. ASSUME NEW call \in Calls, SetUp(call)
      PROVE  BodyInv'
  BY <1>3, SetUpKeepsBodyInv
<1>4. CASE WriterNext
  BY <1>4, SerializeKeepsBodyInv, ToOldStructKeepsBodyInv, SerializeStructKeepsBodyInv,
     SerializeMemberKeepsBodyInv, SerializeNumberKeepsBodyInv, SerializeArrayKeepsBodyInv,
     SerializeElementKeepsBodyInv, SerializePointerKeepsBodyInv, EndOfWritingKeepsBodyInv
     DEF WriterNext
<1>5. CASE ReaderNext
  BY <1>5, DeserializeKeepsBodyInv, FromOldStructKeepsBodyInv,
     ConvertToUpperVersionKeepsBodyInv, DeserializeStructKeepsBodyInv,
     DeserializeMemberKeepsBodyInv, DeserializeNumberKeepsBodyInv, DeserializeArrayKeepsBodyInv,
     DeserializeElementKeepsBodyInv, DeserializePointerKeepsBodyInv, EndOfReadingKeepsBodyInv
     DEF ReaderNext
<1> QED  BY <1>1, <1>2, <1>3, <1>4, <1>5 DEF Next

(* Whatever the builds know, whatever graph is sent and whichever calls    *)
(* are nested, all that a message is written and read with has its type,   *)
(* the items of the agenda are structs the message can hold, and the       *)
(* pointers that were read lead to objects that were made to stay.         *)
THEOREM BodyInvHolds == Spec => []BodyInv
<1>1. Init => BodyInv
  BY InitIsBodyInv
<1>2. BodyInv /\ [Next]_vars => BodyInv'
  BY NextKeepsBodyInv
<1> QED  BY <1>1, <1>2, PTL DEF Spec

(* serialize and deserialize keep contexts, maps, message and memory in    *)
(* their types: every offset in a map lies in the message, behind the      *)
(* header, and no more is read than there is.                              *)
THEOREM BodyTypeCorrect == Spec => []TypeOK
<1>1. BodyInv => TypeOK
  BY DEF BodyInv, Typed
<1> QED  BY <1>1, BodyInvHolds, PTL

(* Unless elements of arrays are numbered while structs are converted, no  *)
(* pointer that BodyProcessor's deserialize leaves in an object leads into *)
(* a temporary of an older version, after a message that was read and      *)
(* after one that failed.                                                  *)
THEOREM PointersLive == Spec => [](~ElementsNumbered => PointersAreLive)
<1>1. BodyInv => (~ElementsNumbered => PointersAreLive)
  <2>1. ASSUME BodyInv, ~ElementsNumbered, NEW slot \in DOMAIN memory, memory[slot] # Null
        PROVE  memory[slot][1] \notin dead
    <3>1. Stays(memory[slot]) /\ dead \subseteq 1..made /\ made \in Nat
      BY <2>1 DEF BodyInv, PointersStay, Typed, TypeOK, IsMemory
    <3>2. dead \subseteq Nat
      BY <3>1
    <3> QED  BY <2>1, <3>1, <3>2 DEF Stays
  <2> QED  BY <2>1 DEF PointersAreLive
<1> QED  BY <1>1, BodyInvHolds, PTL
=============================================================================

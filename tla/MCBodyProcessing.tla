-------------------------- MODULE MCBodyProcessing --------------------------
(***************************************************************************)
(* Instances of BodyProcessing for TLC.  The message is a struct A with a  *)
(* number or two that come and go with the versions, an array of two M and *)
(* a pointer to N; an N points to an N and to an M.  M is copied as bytes  *)
(* where that is allowed, and got a member in version 2.                   *)
(***************************************************************************)
EXTENDS BodySharing

CONSTANTS n1, n2, m1

number(name) == [name |-> name, kind |-> "number", type |-> "int", version |-> 0, n |-> 1]
pointer(name, T) == [name |-> name, kind |-> "pointer", type |-> T, version |-> 0, n |-> 1]
array(name, T, v) == [name |-> name, kind |-> "array", type |-> T, version |-> v, n |-> 2]
member(name, T, v) == [name |-> name, kind |-> "member", type |-> T, version |-> v, n |-> 1]

layout(members, latest, tag) ==
    [members |-> members, latest |-> latest, tag |-> tag, endiannessTolerant |-> FALSE]

A0 == layout(<<number("old"), number("z"), array("items", "M", 0), pointer("p", "N")>>, 0, "none")
A1(v, latest) == layout(<<number("q"), array("items", "M", v), pointer("p", "N")>>, latest, "none")
A3 == layout(<<number("x"), member("one", "M", 2), number("z"), array("items", "M", 2),
               pointer("p", "N"), number("q")>>, 3, "none")
M0 == layout(<<number("a")>>, 0, "simply")
M2 == layout(<<number("a"), number("b")>>, 2, "simply")
N0(latest) == layout(<<pointer("next", "N"), number("v"), pointer("w", "M")>>, latest, "none")

build(interface, A, M, N, LA, LM) ==
    [interface |-> interface,
     private |-> [A |-> A, M |-> M, N |-> <<0>>],
     layout |-> [A |-> LA, M |-> LM, N |-> (0 :> N)],
     forbidden |-> [T \in {"A", "M", "N"} |-> {}],
     mandatory |-> [T \in {"A", "M", "N"} |->
                       IF T = "A" /\ interface > 0 THEN {"allowUnmanagedPointers"} ELSE {}]]

MCBuilds ==
    [b0 |-> build(0, <<0>>, <<0>>, N0(0), 0 :> A0, 0 :> M0),
     b1 |-> build(1, <<1, 0>>, <<0>>, N0(0), (0 :> A0) @@ (1 :> A1(0, 1)), 0 :> M0),
     b2 |-> build(2, <<1, 0>>, <<2, 0>>, N0(2), (0 :> A0) @@ (1 :> A1(2, 2)),
                  (0 :> M0) @@ (2 :> M2)),
     b3 |-> build(3, <<3, 1, 0>>, <<2, 0>>, N0(2), (0 :> A0) @@ (1 :> A1(2, 2)) @@ (3 :> A3),
                  (0 :> M0) @@ (2 :> M2))]

AllPairs == {"b0", "b1", "b2", "b3"} \X {"b0", "b1", "b2", "b3"}
OneVersionOlder == {<<"b0", "b1">>}

(* No N, one, one that leads to itself, or two; each may point to an M or to an element. *)
Holding(slot, p) == IF p = Null THEN <<>> ELSE slot :> p
Node(n, next, w) == Holding(<<n, "next", 1>>, next) @@ Holding(<<n, "w", 1>>, w)
Ms == {Null, <<m1>>, <<root, "items", 2>>}
ToFirst == <<root, "p", 1>> :> <<n1>>

MCGraphs ==
    {<<>>} \cup
    {ToFirst @@ Node(n1, next, w) : next \in {Null, <<n1>>}, w \in Ms} \cup
    {ToFirst @@ Node(n1, <<n2>>, w) @@ Node(n2, next, x) :
        next \in {Null, <<n1>>, <<n2>>}, w \in Ms, x \in Ms}

call(version, flags, difference) ==
    [version |-> version, flags |-> flags, endiannessDifference |-> difference]

Recursive == {"allowUnmanagedPointers", "checkRecursivePointers"}

MCCalls ==
    {call(Undefined, Recursive, FALSE),
     call(2, Recursive, FALSE),
     call(1, Recursive \cup {"simplyAssignableTagsOptimizationsAreTurnedOff"}, FALSE),
     call(0, Recursive, TRUE),
     call(Undefined, {"allowUnmanagedPointers"}, FALSE),
     call(0, {"allowUnmanagedPointers"}, FALSE),
     call(Undefined, {"checkRecursivePointers"}, FALSE),
     call(0, {}, FALSE)}

NoneSpared == {}
ElementsSpared == {"elements"}

-----------------------------------------------------------------------------
(* A build whose struct has the private versions 7, 6, 3 and 2. *)

FourBuilds ==
    [b7 |-> [interface |-> 7,
             private |-> [A |-> <<7, 6, 3, 2>>],
             layout |-> [A |-> [v \in {2, 3, 6, 7} |-> layout(<<number("z")>>, v, "none")]],
             forbidden |-> [A |-> {}], mandatory |-> [A |-> {}]]]

FourPairs == {<<"b7", "b7">>}
NoPointers == {<<>>}
FourCalls == {call(v, {}, FALSE) : v \in {2, 4, 6, 7}}

(* The builds above are as the theorems on AcceptedIsRead, ReceivedAsSent and       *)
(* SharedStaysShared ask, the last one but for the number of its versions.          *)
ASSUME BuildsOfTheTheorem ==
    OneHistory /\ FlagsOfParts /\ PlainStructs /\ (ThreeVersions <=> Pairs # FourPairs)

(* The places that can be reached in a graph, each with its type *)
RECURSIVE Reached(_, _, _)
Reached(b, g, known) ==
    LET from(e) ==
            LET members == UNION {ToSet(b.layout[e[2]][v].members) : v \in ToSet(b.private[e[2]])}
                parts == {m \in members : m.kind \in {"member", "array"}}
                pointers == {m \in members : m.kind = "pointer" /\ At(g, Part(e[1], m.name, 1)) # Null}
            IN  UNION {{<<Part(e[1], m.name, j), m.type>> : j \in 1 .. m.n} : m \in parts}
                \cup {<<At(g, Part(e[1], m.name, 1)), m.type>> : m \in pointers}
        more == known \cup UNION {from(e) : e \in known}
    IN  IF more = known THEN known ELSE Reached(b, g, more)

TypesIn(b, g) ==
    LET known == Reached(b, g, {<<Root, RootType>>})
    IN  [place \in {e[1] : e \in known} |-> (CHOOSE e \in known : e[1] = place)[2]]

(* The graphs are as those theorems ask (PlainGraph), but for those whose pointers  *)
(* lead to elements of arrays.                                                      *)
ASSUME GraphsOfTheTheorem ==
    \A talk \in Pairs : \A g \in Graphs :
        (\A slot \in DOMAIN g : Len(g[slot]) = 1) =>
            /\ \A slot \in DOMAIN g : g[slot] # Root
            /\ TypedBy(Builds[talk[1]], g, TypesIn(Builds[talk[1]], g))
=============================================================================

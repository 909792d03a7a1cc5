---------------------------- MODULE TestStructs ----------------------------
(***************************************************************************)
(* The structs of the repository's tests, with their legacy structs, the   *)
(* order in which their generated functions take the members, the legacy   *)
(* structs their generated converters go through, and their conversions.   *)
(* DForAllModesTests and what it is made of with ManyPointersType is left  *)
(* to BodyProcessing, which has pointers that form cycles.                 *)
(***************************************************************************)
EXTENDS SerializableStructs

Empty == Plain("empty", FALSE, <<>>, <<>>)

(* tests_restricted_structs: structs that are members only *)
RestrictedAlignedToOneMembers == <<<<"m_a", Short>>, <<"m_s", Byte>>>>
RestrictedAlignedToOne ==
  Plain("aligned", TRUE, RestrictedAlignedToOneMembers, [m_a |-> 1, m_s |-> 2])

RestrictedSimplyMembers == <<<<"m_q", Short>>, <<"m_w", Of("uint64_t")>>>>
RestrictedSimply == Plain("simply", FALSE, RestrictedSimplyMembers, [m_q |-> 1, m_w |-> 2])

RestrictedPolymorphicMembers == <<<<"m_r", Byte>>, <<"m_arrR", Array(Byte, 3)>>>>
RestrictedPolymorphic ==
  Plain("none", FALSE, RestrictedPolymorphicMembers, [m_r |-> 10, m_arrR |-> <<97, 98, 99>>])

TwoIntsMembers == <<<<"m_x", Byte>>, <<"m_y", Short>>>>
TwoInts == Plain("simply", FALSE, TwoIntsMembers, [m_x |-> 3, m_y |-> 4])

RestrictedWithoutFunctions ==
  WithoutFunctions(Plain("simply", FALSE, <<<<"m_i", Byte>>>>, [m_i |-> 104]))

-----------------------------------------------------------------------------

EmptyType == Serializable(0, <<0>>, <<>>, "empty", FALSE, <<>>, <<>>)

AlignedToOneMembers == <<<<"m_x", Byte>>, <<"m_y", Byte>>>>
AlignedToOneLegacy == <<"SimplyAssignableAlignedToOne_Version1", "SimplyAssignableAlignedToOne_Version0">>
AlignedToOne ==
  Serializable(3, <<3, 1, 0>>, AlignedToOneLegacy, "aligned", TRUE, AlignedToOneMembers,
               [m_x |-> 3, m_y |-> 4])

(* Tagged as aligned to one, which TwoInts and uint16_t keep them from being. *)
AlignedToOneMembers1 == <<<<"m_x", Byte>>, <<"m_y", Short>>>>
AlignedToOne_Version1 ==
  Serializable(1, <<1, 0>>, <<>>, "aligned", FALSE,
               AlignedToOneMembers1, [m_x |-> 3, m_y |-> 4])
AlignedToOneMembers0 == <<<<"m_ti", Of("TwoInts")>>>>
AlignedToOne_Version0 ==
  Serializable(0, <<0>>, <<>>, "aligned", FALSE, AlignedToOneMembers0, [m_ti |-> TwoInts.filled])

(* The members SimplyAssignable and its legacy struct have in common; Part is their AlignedToOne. *)
SimplyMembersOf(Part, last) == <<
  <<"m_i", Byte>>, <<"m_j", Short>>, <<"m_et", Of("EmptyType")>>, <<"m_et2", Of("Empty")>>,
  <<"m_saaToS", Of(Part)>>, <<"m_saaToNS", Of("RestrictedAlignedToOne")>>,
  <<"m_saNS", Of("RestrictedSimply")>>, <<"m_arrI32", Array(Word, 3)>>,
  <<"m_arrEtS", Array(Of("EmptyType"), 3)>>, <<"m_arrEtNS", Array(Of("Empty"), 3)>>,
  <<"m_arrSaaTos", Array(Of(Part), 3)>>, <<"m_arrSaaToNS", Array(Of("RestrictedAlignedToOne"), 3)>>,
  <<"m_arrSaNS", Array(Of("RestrictedSimply"), 3)>>, last>>
SimplyMembers ==
  SimplyMembersOf("SimplyAssignableAlignedToOne", <<"m_vx", Of("uint64_t")>>)
SimplyMembers0 ==
  SimplyMembersOf("SimplyAssignableAlignedToOne_Version0", <<"m_vt", Word>>)

Threefold(v) == <<v, v, v>>
(* m_arrI32 is filled as memory, "123456789012": these are its numbers on a little-endian platform. *)
SimplyFilled == [
  m_i |-> 7, m_j |-> 8, m_et |-> <<>>, m_et2 |-> <<>>,
  m_saaToNS |-> RestrictedAlignedToOne.filled, m_saNS |-> RestrictedSimply.filled,
  m_arrI32 |-> <<875770417, 943142453, 842084409>>,
  m_arrEtS |-> Threefold(<<>>), m_arrEtNS |-> Threefold(<<>>),
  m_arrSaaToNS |-> <<[m_a |-> 15000, m_s |-> 122], [m_a |-> 15001, m_s |-> 123],
                     [m_a |-> 15002, m_s |-> 124]>>,
  m_arrSaNS |-> <<[m_q |-> 123, m_w |-> 456], [m_q |-> 567, m_w |-> 890],
                  [m_q |-> 789, m_w |-> 10]>>]
With(f, name, v) == [n \in DOMAIN f \cup {name} |-> IF n = name THEN v ELSE f[n]]
Simply_filled ==
  With(With(With(SimplyFilled, "m_saaToS", AlignedToOne.filled), "m_vx", 46984), "m_arrSaaTos",
       <<[m_x |-> 48, m_y |-> 60], [m_x |-> 49, m_y |-> 61], [m_x |-> 50, m_y |-> 62]>>)
Simply0_filled ==
  With(With(With(SimplyFilled, "m_saaToS", AlignedToOne_Version0.filled), "m_vt", 23492), "m_arrSaaTos",
       <<[m_ti |-> [m_x |-> 48, m_y |-> 60]], [m_ti |-> [m_x |-> 49, m_y |-> 61]],
         [m_ti |-> [m_x |-> 50, m_y |-> 62]]>>)
SimplyLegacy == <<"SimplyAssignable_Version0">>
Simply == Serializable(3, <<2, 0>>, SimplyLegacy, "simply", FALSE, SimplyMembers, Simply_filled)
Simply_Version0 == Serializable(0, <<0>>, <<>>, "simply", FALSE, SimplyMembers0, Simply0_filled)

(* The first member stands for the base. *)
DescendantMembers == <<<<"base", Of("SimplyAssignable")>>, <<"m_d", Word>>>>
DescendantLegacy == <<"SimplyAssignableDescendant_Version0">>
Descendant ==
  Serializable(3, <<2, 0>>, DescendantLegacy, "simply", FALSE, DescendantMembers,
               [base |-> Simply_filled, m_d |-> Simply_filled.m_i + 2])
DescendantMembers0 == <<<<"base", Of("SimplyAssignable_Version0")>>, <<"m_d", Word>>>>
Descendant_Version0 ==
  Serializable(0, <<0>>, <<>>, "simply", FALSE, DescendantMembers0,
               [base |-> Simply0_filled, m_d |-> Simply0_filled.m_i + 2])

AlwaysMembers == <<<<"m_x", Byte>>, <<"m_y", Byte>>>>
AlwaysLegacy == <<"AlwaysSimplyAssignable_Version0">>
Always ==
  Serializable(2, <<2, 0>>, AlwaysLegacy, "always", TRUE, AlwaysMembers, [m_x |-> 210, m_y |-> 115])
AlwaysMembers0 == <<<<"m_xx", Short>>, <<"m_yy", Short>>>>
Always_Version0 ==
  Serializable(0, <<0>>, <<>>, "always", TRUE, AlwaysMembers0, [m_xx |-> 211, m_yy |-> 117])

FixedSizeMembers ==
  <<<<"m_x", Byte>>, <<"m_asa", Of("AlwaysSimplyAssignable")>>,
    <<"m_arrAsa", Array(Of("AlwaysSimplyAssignable"), 3)>>>>
FixedSizeLegacy == <<"SimplyAssignableFixedSize_Version1">>
FixedSize ==
  Serializable(2, <<2, 1>>, FixedSizeLegacy, "fixed", FALSE, FixedSizeMembers,
    [m_x |-> 178, m_asa |-> Always.filled,
     m_arrAsa |-> <<[m_x |-> 30, m_y |-> 132], [m_x |-> 88, m_y |-> 53], [m_x |-> 159, m_y |-> 227]>>])
FixedSizeMembers1 ==
  <<<<"m_xx", Short>>, <<"m_asa", Of("AlwaysSimplyAssignable_Version0")>>,
    <<"m_arrAsa", Array(Of("AlwaysSimplyAssignable_Version0"), 3)>>>>
FixedSize_Version1 ==
  Serializable(1, <<1>>, <<>>, "fixed", FALSE, FixedSizeMembers1,
    [m_xx |-> 179, m_asa |-> Always_Version0.filled,
     m_arrAsa |-> <<[m_xx |-> 31, m_yy |-> 134], [m_xx |-> 89, m_yy |-> 55], [m_xx |-> 160, m_yy |-> 229]>>])

-----------------------------------------------------------------------------

PolymorphicMembers ==
  <<<<"m_o", Byte>>, <<"m_dpNS", Of("RestrictedPolymorphic")>>, <<"m_arrO", Array(Byte, 3)>>,
    <<"m_arrDpNS", Array(Of("RestrictedPolymorphic"), 3)>>>>
Polymorphic ==
  Serializable(0, <<0>>, <<>>, "none", FALSE, PolymorphicMembers,
    [m_o |-> 11, m_dpNS |-> RestrictedPolymorphic.filled, m_arrO |-> <<100, 101, 102>>,
     m_arrDpNS |-> <<RestrictedPolymorphic.filled, [m_r |-> 12, m_arrR |-> <<103, 104, 105>>],
                     [m_r |-> 13, m_arrR |-> <<106, 107, 108>>]>>])

(* The edges take the virtual base each, so the one m_d0 goes twice. *)
Edge1Members == <<<<"m_d0", Word>>, <<"m_d1", Word>>>>
Edge2Members == <<<<"m_d0", Word>>, <<"m_d2", Word>>>>
DiamondMembers == Edge1Members \o Edge2Members
Diamond ==
  Serializable(0, <<0>>, <<>>, "none", FALSE, DiamondMembers, [m_d0 |-> 18, m_d1 |-> 19, m_d2 |-> 20])

SpecialMembers ==
  <<<<"m_vec", Vector(Of("Diamond"))>>, <<"m_saaToNS", Of("RestrictedAlignedToOne")>>,
    <<"m_saNS", Of("RestrictedSimply")>>, <<"m_pVec", Pointer(Vector(Of("Diamond")))>>,
    <<"m_pInt", Pointer(Of("int"))>>, <<"m_ppInt", Pointer(Pointer(Of("int")))>>,
    <<"m_nullptrInt", Pointer(Of("int"))>>, <<"m_c", Of("char")>>, <<"m_sh", Short>>,
    <<"m_m", Of("Message")>>, <<"m_tEnum", Of("TEnum")>>, <<"m_ll", Of("int64_t")>>,
    <<"m_float", Of("float")>>, <<"m_double", Of("double")>>>>
(* Of the second Diamond fill() sets m_d0 three times.  A pointer is the sequence of what it points to. *)
SpecialVector == <<Diamond.filled, [m_d0 |-> 25, m_d1 |-> 0, m_d2 |-> 0]>>
Special ==
  Serializable(0, <<0>>, <<>>, "none", FALSE, SpecialMembers,
    [m_vec |-> SpecialVector, m_saaToNS |-> RestrictedAlignedToOne.filled,
     m_saNS |-> RestrictedSimply.filled, m_pVec |-> <<SpecialVector>>, m_pInt |-> <<64984561>>,
     m_ppInt |-> <<<<548505248>>>>, m_nullptrInt |-> <<>>, m_c |-> -82, m_sh |-> 48893, m_m |-> 1,
     m_tEnum |-> <<179, 132, 225, 175, 25, 2, 0, 0>>,
     m_ll |-> <<107, 202, 93, 158, 236, 255, 255, 255>>,
     m_float |-> <<115, 8, 167, 62>>, m_double |-> <<0, 0, 58, 246, 144, 48, 9, 194>>])

(* The similar types: each pair has one id, and stands for one struct of two platforms. *)
PairMembers(k) == <<<<"m_j", Of("char")>>, <<"m_k", Of(k)>>>>
AlignedSimilar1 ==
  Serializable(0, <<0>>, <<>>, "aligned", TRUE, PairMembers("int"), [m_j |-> 99, m_k |-> 15456])
AlignedSimilar2 ==
  Serializable(0, <<0>>, <<>>, "aligned", TRUE, PairMembers("short"), [m_j |-> 99, m_k |-> 15456])
SimplySimilar1 ==
  Serializable(0, <<0>>, <<>>, "simply", FALSE, PairMembers("int"), [m_j |-> 101, m_k |-> 8374])
SimplySimilar2 ==
  Serializable(0, <<0>>, <<>>, "simply", FALSE, PairMembers("short"), [m_j |-> 101, m_k |-> 8374])

SimilarMembers(k, l, i) ==
  PairMembers(k) \o
    <<<<"m_arrL", Array(Of(l), 5)>>, <<"m_sasTs", Array(Of("SimplyAssignableSimilarType" \o i), 3)>>,
      <<"m_saaToSts", Array(Of("SimplyAssignableAlignedToOneSimilarType" \o i), 3)>>>>
SimilarFilled ==
  [m_j |-> 102, m_k |-> 9951, m_arrL |-> <<34, 44, 54, 64, 74>>,
   m_sasTs |-> <<[m_j |-> 105, m_k |-> 11123], [m_j |-> 100, m_k |-> 20110], [m_j |-> 105, m_k |-> 25548]>>,
   m_saaToSts |-> <<[m_j |-> 21, m_k |-> 11923], [m_j |-> 85, m_k |-> 31002], [m_j |-> 54, m_k |-> 4563]>>]
Similar1 == Serializable(0, <<0>>, <<>>, "none", FALSE, SimilarMembers("int", "uint8_t", "1"), SimilarFilled)
Similar2 == Serializable(0, <<0>>, <<>>, "none", FALSE, SimilarMembers("short", "uint32_t", "2"), SimilarFilled)

SAWithoutFunctions ==
  WithoutFunctions(Serializable(0, <<0>>, <<>>, "simply", FALSE, <<<<"m_i", Word>>>>, [m_i |-> 24801]))
ContainWithoutMembers ==
  <<<<"m_sawsf", Of("SimplyAssignableWithoutSerializationFunctions")>>,
    <<"m_npfSawsf", Of("RestrictedWithoutFunctions")>>>>
ContainWithout ==
  Serializable(0, <<0>>, <<>>, "none", FALSE, ContainWithoutMembers,
    [m_sawsf |-> SAWithoutFunctions.filled, m_npfSawsf |-> RestrictedWithoutFunctions.filled])

(* BigStructs is a vector to the processor; ProfillingTests fill each with many of one struct. *)
BigStructs(T) == Vector(Of(T))
Twice(struct) == <<struct.filled, struct.filled>>
ContainBigMembers ==
  <<<<"m_big1", BigStructs("SimplyAssignableAlignedToOne")>>, <<"m_big2", BigStructs("SimplyAssignable")>>,
    <<"m_big3", BigStructs("SimplyAssignableDescendant")>>, <<"m_big4", BigStructs("AlwaysSimplyAssignable")>>,
    <<"m_big5", BigStructs("SimplyAssignableFixedSize")>>, <<"m_big6", BigStructs("DynamicPolymorphic")>>,
    <<"m_big7", BigStructs("Diamond")>>>>
ContainBig ==
  Serializable(0, <<0>>, <<>>, "none", FALSE, ContainBigMembers,
    [m_big1 |-> Twice(AlignedToOne), m_big2 |-> Twice(Simply), m_big3 |-> Twice(Descendant),
     m_big4 |-> Twice(Always), m_big5 |-> Twice(FixedSize), m_big6 |-> Twice(Polymorphic),
     m_big7 |-> Twice(Diamond)])

(* Strings as codes; maps as sequences of pairs in the order of their keys. *)
Asdfg == <<97, 115, 100, 102, 103>>
Text == String(Of("char"))
OneBigMembers ==
  <<<<"m_string1", Text>>, <<"m_string2", String(Of("wchar_t"))>>, <<"m_vector1", Vector(Text)>>,
    <<"m_vector2", Vector(Word)>>, <<"m_map1", MapOf(Tuple(<<Byte, Of("float")>>))>>,
    <<"m_map2", MapOf(Tuple(<<Text, Vector(Byte)>>))>>,
    <<"m_tuple1", Tuple(<<Byte, Of("int64_t"), Text>>)>>, <<"m_tuple2", Tuple(<<Of("double")>>)>>>>
OneBig ==
  Serializable(0, <<0>>, <<>>, "none", FALSE, OneBigMembers,
    [m_string1 |-> Asdfg, m_string2 |-> Asdfg,
     m_vector1 |-> <<Asdfg \o <<49, 50, 51>>, Asdfg \o <<52, 53, 54>>, Asdfg \o <<55, 56, 57>>>>,
     m_vector2 |-> <<5, 12, 35456453>>,
     m_map1 |-> <<<<17, <<83, 188, 127, 71>>>>, <<123, <<84, 227, 165, 62>>>>>>,
     m_map2 |-> <<<<<<32, 98, 51, 52, 98>>, <<2, 78, 235, 16>>>>, <<<<119, 101, 116, 101>>, <<54, 124, 21, 19>>>>,
                  <<<<119, 116, 97, 115, 115, 97, 99>>, <<23, 2, 0, 139>>>>>>,
     m_tuple1 |-> <<93, <<215, 136, 82, 191, 0, 0, 0, 0>>, <<48, 57, 57, 50, 51, 52>>>>,
     m_tuple2 |-> <<<<154, 153, 153, 193, 219, 204, 128, 65>>>>])

TestStruct == [
  Empty |-> Empty, RestrictedAlignedToOne |-> RestrictedAlignedToOne,
  RestrictedSimply |-> RestrictedSimply, RestrictedPolymorphic |-> RestrictedPolymorphic,
  TwoInts |-> TwoInts, RestrictedWithoutFunctions |-> RestrictedWithoutFunctions,
  EmptyType |-> EmptyType, SimplyAssignableAlignedToOne |-> AlignedToOne,
  SimplyAssignableAlignedToOne_Version1 |-> AlignedToOne_Version1,
  SimplyAssignableAlignedToOne_Version0 |-> AlignedToOne_Version0,
  SimplyAssignable |-> Simply, SimplyAssignable_Version0 |-> Simply_Version0,
  SimplyAssignableDescendant |-> Descendant, SimplyAssignableDescendant_Version0 |-> Descendant_Version0,
  AlwaysSimplyAssignable |-> Always, AlwaysSimplyAssignable_Version0 |-> Always_Version0,
  SimplyAssignableFixedSize |-> FixedSize, SimplyAssignableFixedSize_Version1 |-> FixedSize_Version1,
  DynamicPolymorphic |-> Polymorphic, Diamond |-> Diamond, SpecialProcessingType |-> Special,
  SimplyAssignableAlignedToOneSimilarType1 |-> AlignedSimilar1,
  SimplyAssignableAlignedToOneSimilarType2 |-> AlignedSimilar2,
  SimplyAssignableSimilarType1 |-> SimplySimilar1, SimplyAssignableSimilarType2 |-> SimplySimilar2,
  SimilarType1 |-> Similar1, SimilarType2 |-> Similar2,
  SimplyAssignableWithoutSerializationFunctions |-> SAWithoutFunctions,
  ContainSimplyAssignableWithoutSerializationFunctions |-> ContainWithout,
  ContainBigStructs1 |-> ContainBig, OneBigType |-> OneBig]

-----------------------------------------------------------------------------
(***************************************************************************)
(* init(const From& rhs) of each legacy struct and of what it is converted *)
(* to, on numbers as bytes: To(n, b) is b assigned to a number of n bytes, *)
(* Plus(b, k) the unsigned sum.  Versions 3 and 1 of AlignedToOne, and so  *)
(* of every pair, are converted in both directions.                        *)
(***************************************************************************)
To(n, b) == [i \in 1..n |-> IF i <= Len(b) THEN b[i] ELSE 0]
(* Of a number that fits into three bytes. *)
UpTo3Bytes(b) == To(3, b)[1] + 256 * To(3, b)[2] + 65536 * To(3, b)[3]
Plus(n, b, k) == BytesOf(n, UpTo3Bytes(b) + k)

AlignedToOne1From3(v) == [m_x |-> v.m_x, m_y |-> To(2, v.m_y)]
AlignedToOne3From1(v) == [m_x |-> v.m_x, m_y |-> To(1, v.m_y)]
AlignedToOne1From0(v) == v.m_ti
AlignedToOne0From1(v) == [m_ti |-> v]

(* SimplyAssignable::init takes the members of m_saaToS and m_arrSaaTos one by one. *)
Simply0From2(v) ==
  [n \in {m[1] : m \in {SimplyMembers0[i] : i \in DOMAIN SimplyMembers0}} |->
     CASE n = "m_vt" -> BytesOf(4, UpTo3Bytes(v.m_vx) \div 2)
       [] n = "m_saaToS" -> AlignedToOne0From1(AlignedToOne1From3(v.m_saaToS))
       [] n = "m_arrSaaTos" -> [i \in 1..3 |-> AlignedToOne0From1(AlignedToOne1From3(v.m_arrSaaTos[i]))]
       [] OTHER -> v[n]]
Simply2From0(v) ==
  [n \in {m[1] : m \in {SimplyMembers[i] : i \in DOMAIN SimplyMembers}} |->
     CASE n = "m_vx" -> BytesOf(8, UpTo3Bytes(v.m_vt) * 2)
       [] n = "m_saaToS" -> AlignedToOne3From1(v.m_saaToS.m_ti)
       [] n = "m_arrSaaTos" -> [i \in 1..3 |-> AlignedToOne3From1(v.m_arrSaaTos[i].m_ti)]
       [] OTHER -> v[n]]

Descendant0From2(v) == [base |-> Simply0From2(v.base), m_d |-> v.m_d]
Descendant2From0(v) == [base |-> Simply2From0(v.base), m_d |-> v.m_d]

Always0From2(v) == [m_xx |-> Plus(2, v.m_x, 1), m_yy |-> Plus(2, v.m_y, 2)]
Always2From0(v) == [m_x |-> Plus(1, v.m_xx, -1), m_y |-> Plus(1, v.m_yy, -2)]

FixedSize1From2(v) ==
  [m_xx |-> Plus(2, v.m_x, 1), m_asa |-> Always0From2(v.m_asa),
   m_arrAsa |-> [i \in 1..3 |-> Always0From2(v.m_arrAsa[i])]]
FixedSize2From1(v) ==
  [m_x |-> Plus(1, v.m_xx, -1), m_asa |-> Always2From0(v.m_asa),
   m_arrAsa |-> [i \in 1..3 |-> Always2From0(v.m_arrAsa[i])]]

TestInit(name, from, v) ==
  CASE name = "SimplyAssignableAlignedToOne" -> AlignedToOne3From1(v)
    [] name = "SimplyAssignableAlignedToOne_Version1" /\ from = "SimplyAssignableAlignedToOne" -> AlignedToOne1From3(v)
    [] name = "SimplyAssignableAlignedToOne_Version1" /\ from # "SimplyAssignableAlignedToOne" -> AlignedToOne1From0(v)
    [] name = "SimplyAssignableAlignedToOne_Version0" -> AlignedToOne0From1(v)
    [] name = "SimplyAssignable" -> Simply2From0(v)
    [] name = "SimplyAssignable_Version0" -> Simply0From2(v)
    [] name = "SimplyAssignableDescendant" -> Descendant2From0(v)
    [] name = "SimplyAssignableDescendant_Version0" -> Descendant0From2(v)
    [] name = "AlwaysSimplyAssignable" -> Always2From0(v)
    [] name = "AlwaysSimplyAssignable_Version0" -> Always0From2(v)
    [] name = "SimplyAssignableFixedSize" -> FixedSize2From1(v)
    [] name = "SimplyAssignableFixedSize_Version1" -> FixedSize1From2(v)
=============================================================================

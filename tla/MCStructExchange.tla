-------------------------- MODULE MCStructExchange --------------------------
(* The exchanges of the full cycle tests, each under all the settings and platforms. *)
EXTENDS StructExchange, TestStructs

(* 8, as on x86-64; 4, as on i386; 1, as on 8-bit processors and in packed builds *)
MCAlignments == {<<8, 8>>, <<8, 1>>, <<4, 8>>}
MCMemory == LayoutsOf(TestStruct, {1, 4, 8})

FlagSets == SUBSET {"alignmentMayBeNotEqual", "sizeOfIntegersMayBeNotEqual",
                    "simplyAssignableTagsOptimizationsAreTurnedOff"}

Cycle(sent, received, given, expected, fits, version, flagSets, bits) ==
  [sent |-> sent, received |-> received, given |-> given, expected |-> expected, fits |-> fits,
   version |-> version, flagSets |-> flagSets, bits |-> bits]

(* BasicMode, AlignmentMayBeNotEqual, TagsTurnedOff, Profilling and MultiTests *)
Itself(name, version, flagSets, bits) ==
  Cycle(name, name, Struct[name].filled, Struct[name].filled, TRUE, version, flagSets, bits)

WithPointers == {f \cup {"allowUnmanagedPointers"} : f \in FlagSets}

(* InterfaceVersionsNotMatch: each version there was, and one before the first *)
Versions == [SimplyAssignableAlignedToOne |-> {0, 1, 2}, SimplyAssignable |-> {0, 1, 2},
             SimplyAssignableDescendant |-> {0, 2}, AlwaysSimplyAssignable |-> {0, 1, 3},
             SimplyAssignableFixedSize |-> {0, 1, 3}]

Legacy(latest, old) ==
  {Cycle(latest, old, Struct[latest].filled, Struct[old].filled, TRUE, Struct[old].interface, FlagSets, {FALSE}),
   Cycle(old, latest, Struct[old].filled, Struct[latest].filled, TRUE, Undefined, FlagSets, {FALSE})}

(* SizeOfPrimitivesMayBeNotEqual: as filled, at the bounds of the smaller type, and beyond them *)
Sizes == {f \in FlagSets : "sizeOfIntegersMayBeNotEqual" \in f}
Resizing(one, other, v, fits) == Cycle(one, other, v, v, fits, Undefined, Sizes, {FALSE})
WithK(name, k) == [Struct[name].filled EXCEPT !.m_k = k]
WithElement(name, l) == [Struct[name].filled EXCEPT !.m_arrL[3] = l]
Pair(int, short) ==
  {Resizing(int, short, WithK(int, k), k \in -32768..32767) :
     k \in {Struct[int].filled.m_k, 32767, -32768, 32768, -32769}}
    \cup {Resizing(short, int, WithK(short, k), TRUE) : k \in {32767, -32768}}

MCCycles ==
  {Itself(name, Undefined, FlagSets, {FALSE}) :
     name \in {"EmptyType", "SimplyAssignableAlignedToOne", "SimplyAssignable", "SimplyAssignableDescendant",
               "AlwaysSimplyAssignable", "SimplyAssignableFixedSize", "DynamicPolymorphic", "Diamond",
               "ContainSimplyAssignableWithoutSerializationFunctions", "ContainBigStructs1"}}
    \cup {Itself("SpecialProcessingType", Undefined, {{}} \cup WithPointers, BOOLEAN),
          Itself("OneBigType", Undefined, FlagSets, BOOLEAN)}
    \cup UNION { {Itself(name, v, FlagSets, {FALSE}) : v \in Versions[name]} : name \in DOMAIN Versions }
    \cup UNION { UNION { Legacy(name, Struct[name].legacy[i]) : i \in DOMAIN Struct[name].legacy } :
                  name \in DOMAIN Versions }
    \cup Pair("SimplyAssignableAlignedToOneSimilarType1", "SimplyAssignableAlignedToOneSimilarType2")
    \cup Pair("SimplyAssignableSimilarType1", "SimplyAssignableSimilarType2")
    \cup Pair("SimilarType1", "SimilarType2")
    \cup {Resizing("SimilarType2", "SimilarType1", WithElement("SimilarType2", l), l \in 0..255) : l \in {255, 256}}
=============================================================================

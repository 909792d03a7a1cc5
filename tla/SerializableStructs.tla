------------------------ MODULE SerializableStructs ------------------------
(***************************************************************************)
(* How a struct that is exchanged is described: the parts of ISerializable *)
(* that the compiler knows of it, the members in the order in which the    *)
(* generated functions of BodyProcessor take them, and what fill() gives   *)
(* them.  A legacy struct is a struct of its own.                          *)
(*                                                                         *)
(* A number stands in these descriptions as an integer, or, where it is    *)
(* wider than TLC's integers, as the sequence of its bytes, the least      *)
(* significant first.                                                      *)
(***************************************************************************)
EXTENDS Integers, Sequences

Of(name) == [kind |-> "one", of |-> name]
Array(T, n) == [kind |-> "array", of |-> T, n |-> n]
Vector(T) == [kind |-> "vector", of |-> T]
String(T) == [kind |-> "string", of |-> T]
MapOf(T) == [kind |-> "map", of |-> T]
Tuple(Ts) == [kind |-> "tuple", of |-> Ts]
Pointer(T) == [kind |-> "pointer", of |-> T]

Byte == Of("uint8_t")
Short == Of("uint16_t")
Word == Of("uint32_t")

Arithmetic(size, signed) == [size |-> size, signed |-> signed, fixed |-> FALSE, wide |-> FALSE]
Wide(size, signed, fixed) == [size |-> size, signed |-> signed, fixed |-> fixed, wide |-> TRUE]

(* Of floating point and of fixed size are float and double only: uint32_t, *)
(* say, is not a FixSizedArithmeticType.                                    *)
Numbers == [
  char |-> Arithmetic(1, TRUE),          uint8_t |-> Arithmetic(1, FALSE),
  short |-> Arithmetic(2, TRUE),         uint16_t |-> Arithmetic(2, FALSE),
  int |-> Arithmetic(4, TRUE),           uint32_t |-> Arithmetic(4, FALSE),
  uint64_t |-> Arithmetic(8, FALSE),     wchar_t |-> Arithmetic(4, FALSE),
  Message |-> Arithmetic(2, FALSE),      TEnum |-> Wide(8, FALSE, FALSE),
  int64_t |-> Wide(8, TRUE, FALSE),      float |-> Wide(4, TRUE, TRUE),
  double |-> Wide(8, TRUE, TRUE)]

Fourths == <<1, 256, 65536, 16777216>>
(* The n bytes of v. *)
BytesOf(n, v) ==
  [i \in 1..n |-> IF i <= 4 THEN (v \div Fourths[i]) % 256 ELSE IF v < 0 THEN 255 ELSE 0]

-----------------------------------------------------------------------------

(* A struct that does not implement ISerializable. *)
Plain(tag, packed, members, filled) ==
  [serializable |-> FALSE, interface |-> 0, private |-> <<0>>, legacy |-> <<>>, tag |-> tag,
   packed |-> packed, functions |-> TRUE, members |-> members, filled |-> filled]

(* private lists the versions from the latest down; legacy the structs of all but the first, *)
(* if there are conversions to them.                                                         *)
Serializable(interface, private, legacy, tag, packed, members, filled) ==
  [serializable |-> TRUE, interface |-> interface, private |-> private, legacy |-> legacy,
   tag |-> tag, packed |-> packed, functions |-> TRUE, members |-> members, filled |-> filled]

(* Neither serialize nor deserialize is specialized for the struct. *)
WithoutFunctions(struct) == [struct EXCEPT !.functions = FALSE]
=============================================================================
